---------------------------- MODULE Spec2Model ----------------------------
(***************************************************************************)
(* A model of the OSC-EM converter (package conversion): the mapping       *)
(* resolution of mapping.go, the dynamic array pass of arrays.go and the   *)
(* Convert/CleanMap pipeline.                                              *)
(*                                                                         *)
(* Go strings are sequences of one-character strings, so that Split,       *)
(* Contains, TrimSpace, ToLower, the [N] matcher and the number scanners   *)
(* are computed character by character as the code computes them.          *)
(***************************************************************************)
EXTENDS Integers, Sequences, FiniteSets, TLC

VARIABLES
    rows,                  \* Convert: the loaded mapping table ([]csvextract)
    input,                 \* Convert: the flat input document (map[string]string)
    p1Flag, p2Flag,        \* Convert: the two caller-supplied constants
    pc,                    \* position of the conversion
    stack,                 \* FlattenSchema: the calls not yet returned
    i,                     \* processRegularMappings: index of the next row
    result,                \* convertToHierarchicalJSON: the tree being built
    dynamicFieldPatterns,  \* the package-level deferred registry
    rawValues, crunchFactor, found,  \* locals of the last first-pass iteration
    arrayResults,          \* processEachArrayType: what the second pass appends
    out,                   \* Convert: cleaned := CleanMap(out)
    arg, ret               \* argument and result of a function applied on its own

vars == <<rows, input, p1Flag, p2Flag, pc, i, result, dynamicFieldPatterns,
          rawValues, crunchFactor, found, arrayResults, out, arg, ret, stack>>

(***************************************************************************)
(* Bounds of the model.                                                    *)
(***************************************************************************)
MaxRows == 2
MaxKeys == 2
MaxNodes == 4

(***************************************************************************)
(* Characters and strings.                                                 *)
(***************************************************************************)
\* The characters of the model in ASCII order; Code is order-preserving.
Ascii == <<" ", "+", "-", ".", "0", "1", "2", "3", "4", "5", "6", "7", "8",
           "9", ";", "B", "E", "F", "I", "L", "N", "O", "R", "S", "T", "U", "[",
           "]",
           "a", "b", "c", "d", "e", "f", "g", "i", "k", "l", "m", "n", "o",
           "p", "q", "r", "s", "t", "u", "v", "x", "y", "z">>

Code(c) == CHOOSE k \in 1..Len(Ascii) : Ascii[k] = c

Digits == <<"0", "1", "2", "3", "4", "5", "6", "7", "8", "9">>

IsDigit(c) == \E k \in 1..Len(Digits) : Digits[k] = c

DigitVal(c) == (CHOOSE k \in 1..Len(Digits) : Digits[k] = c) - 1

\* unicode.ToLower on the upper-case letters of the model
LowerChar(c) ==
    CASE c = "B" -> "b" [] c = "E" -> "e" [] c = "F" -> "f" [] c = "I" -> "i"
      [] c = "L" -> "l" [] c = "N" -> "n" [] c = "O" -> "o" [] c = "R" -> "r"
      [] c = "S" -> "s" [] c = "T" -> "t" [] c = "U" -> "u"
      [] OTHER -> c

ToLower(s) == [k \in 1..Len(s) |-> LowerChar(s[k])]

SubStr(s, from, to) == [k \in 1..(to - from + 1) |-> s[from + k - 1]]

HasPrefixAt(s, k, sub) ==
    /\ k + Len(sub) - 1 <= Len(s)
    /\ \A j \in 1..Len(sub) : s[k + j - 1] = sub[j]

\* strings.Index + 1, or 0 when sub does not occur
IndexOf(s, sub) ==
    IF \E k \in 1..(Len(s) + 1) : HasPrefixAt(s, k, sub)
    THEN CHOOSE k \in 1..(Len(s) + 1) :
            /\ HasPrefixAt(s, k, sub)
            /\ \A j \in 1..(k - 1) : ~HasPrefixAt(s, j, sub)
    ELSE 0

Contains(s, sub) == IndexOf(s, sub) # 0

HasSuffix(s, sub) ==
    Len(sub) <= Len(s) /\ HasPrefixAt(s, Len(s) - Len(sub) + 1, sub)

RECURSIVE Split(_, _)
\* strings.Split for a non-empty separator
Split(s, sep) ==
    LET k == IndexOf(s, sep) IN
    IF k = 0 THEN <<s>>
    ELSE <<SubStr(s, 1, k - 1)>> \o Split(SubStr(s, k + Len(sep), Len(s)), sep)

RECURSIVE Join(_, _)
Join(parts, sep) ==
    IF Len(parts) = 0 THEN <<>>
    ELSE IF Len(parts) = 1 THEN parts[1]
    ELSE parts[1] \o sep \o Join(Tail(parts), sep)

RECURSIVE TrimLeft(_)
TrimLeft(s) == IF Len(s) > 0 /\ s[1] = " " THEN TrimLeft(Tail(s)) ELSE s

RECURSIVE TrimRight(_)
TrimRight(s) ==
    IF Len(s) > 0 /\ s[Len(s)] = " " THEN TrimRight(SubStr(s, 1, Len(s) - 1))
    ELSE s

TrimSpace(s) == TrimRight(TrimLeft(s))

TrimPrefix(s, p) ==
    IF HasPrefixAt(s, 1, p) THEN SubStr(s, Len(p) + 1, Len(s)) ELSE s

RECURSIVE StrLess(_, _)
\* Go's < on strings: byte-wise lexicographic
StrLess(a, b) ==
    IF Len(b) = 0 THEN FALSE
    ELSE IF Len(a) = 0 THEN TRUE
    ELSE IF a[1] # b[1] THEN Code(a[1]) < Code(b[1])
    ELSE StrLess(Tail(a), Tail(b))

WILDCARD == <<"[", "N", "]">>
SEMI == <<";">>
DOT == <<".">>

(***************************************************************************)
(* Numbers.  An int64 is an integer; a float64 is the decimal M / 10^E,    *)
(* kept normalised (E = 0 or M not divisible by 10).  The strings of the   *)
(* model hold no hexadecimal, "inf" or "nan" literal, no "_" and no more   *)
(* than PrecDigits fractional digits, and their values are far from the    *)
(* limits of int64 and of exact float64 arithmetic.                        *)
(***************************************************************************)
\* strconv.FormatFloat(val, 'f', 16, 64)
PrecDigits == 16

RECURSIVE Pow10(_)
Pow10(n) == IF n <= 0 THEN 1 ELSE 10 * Pow10(n - 1)

RECURSIVE DigitsVal(_)
DigitsVal(ds) ==
    IF Len(ds) = 0 THEN 0
    ELSE 10 * DigitsVal(SubStr(ds, 1, Len(ds) - 1)) + DigitVal(ds[Len(ds)])

RECURSIVE DigitPrefixLen(_)
\* the number of leading digits of s (the loop "for s.accept(digits) {}")
DigitPrefixLen(s) ==
    IF Len(s) > 0 /\ IsDigit(s[1]) THEN 1 + DigitPrefixLen(Tail(s)) ELSE 0

RECURSIVE StripZerosRight(_)
StripZerosRight(ds) ==
    IF Len(ds) > 0 /\ ds[Len(ds)] = "0"
    THEN StripZerosRight(SubStr(ds, 1, Len(ds) - 1))
    ELSE ds

RECURSIVE Normalise(_, _)
Normalise(m, e) ==
    IF m = 0 THEN [M |-> 0, E |-> 0]
    ELSE IF e > 0 /\ m % 10 = 0 THEN Normalise(m \div 10, e - 1)
    ELSE [M |-> m, E |-> e]

\* the number of digits of s from position from on
DigitsFrom(s, from) == DigitPrefixLen(SubStr(s, from, Len(s)))

CharIs(s, k, set) == k >= 1 /\ k <= Len(s) /\ s[k] \in set

\* The shape of the longest prefix of s that reads as a decimal number: the
\* lengths of its sign (sg), integer digits (nI), point (dot), fraction digits
\* (nF), exponent letter (hasE), exponent sign (esg) and exponent digits (nE).
Shape7(s, sg, nI, dot, nF, hasE, esg) ==
    [sg |-> sg, nI |-> nI, dot |-> dot, nF |-> nF, hasE |-> hasE, esg |-> esg,
     nE |-> IF hasE = 1 THEN DigitsFrom(s, sg + nI + dot + nF + esg + 2) ELSE 0]

Shape6(s, sg, nI, dot, nF, hasE) ==
    Shape7(s, sg, nI, dot, nF, hasE,
           IF hasE = 1 /\ CharIs(s, sg + nI + dot + nF + 2, {"+", "-"}) THEN 1 ELSE 0)

Shape5(s, sg, nI, dot, nF) ==
    Shape6(s, sg, nI, dot, nF,
           IF CharIs(s, sg + nI + dot + nF + 1, {"e", "E"}) THEN 1 ELSE 0)

Shape4(s, sg, nI, dot) ==
    Shape5(s, sg, nI, dot, IF dot = 1 THEN DigitsFrom(s, sg + nI + 2) ELSE 0)

Shape3(s, sg, nI) ==
    Shape4(s, sg, nI, IF CharIs(s, sg + nI + 1, {"."}) THEN 1 ELSE 0)

Shape2(s, sg) == Shape3(s, sg, DigitsFrom(s, sg + 1))

NumShape(s) == Shape2(s, IF CharIs(s, 1, {"+", "-"}) THEN 1 ELSE 0)

ShapeLen(sh) == sh.sg + sh.nI + sh.dot + sh.nF + sh.hasE + sh.esg + sh.nE

\* the decimal with integer digits ip, fraction digits fs and exponent ex
DecimalOf(neg, ip, fs, ex) ==
    LET v == IF Len(fs) - ex >= 0
             THEN Normalise(DigitsVal(ip \o fs), Len(fs) - ex)
             ELSE Normalise(DigitsVal(ip \o fs) * Pow10(ex - Len(fs)), 0)
    IN  [ok |-> TRUE, M |-> (IF neg THEN 0 - v.M ELSE v.M), E |-> v.E]

\* ParseFloat for a string of shape sh
ParseShape(s, sh) ==
    IF /\ ShapeLen(sh) = Len(s)
       /\ sh.nI + sh.nF >= 1
       /\ sh.hasE = 1 => sh.nE >= 1
    THEN DecimalOf(sh.sg = 1 /\ s[1] = "-",
                   SubStr(s, sh.sg + 1, sh.sg + sh.nI),
                   StripZerosRight(SubStr(s, sh.sg + sh.nI + 2,
                                          sh.sg + sh.nI + 1 + sh.nF)),
                   IF sh.hasE = 0 THEN 0
                   ELSE IF CharIs(s, Len(s) - sh.nE, {"-"})
                        THEN 0 - DigitsVal(SubStr(s, Len(s) - sh.nE + 1, Len(s)))
                        ELSE DigitsVal(SubStr(s, Len(s) - sh.nE + 1, Len(s))))
    ELSE [ok |-> FALSE, M |-> 0, E |-> 0]

\* strconv.ParseFloat(s, 64): [ok, M, E]; the whole string must be a number
ParseFloat(s) == ParseShape(s, NumShape(s))

RECURSIVE IntToDigits(_)
IntToDigits(n) ==
    IF n < 10 THEN <<Digits[n + 1]>>
    ELSE IntToDigits(n \div 10) \o <<Digits[(n % 10) + 1]>>

RECURSIVE Zeros(_)
Zeros(n) == IF n <= 0 THEN <<>> ELSE <<"0">> \o Zeros(n - 1)

\* strconv.FormatFloat(val, 'f', prec, 64) for a decimal with E <= prec
FormatFloat(m, e, prec) ==
    LET a    == IF m < 0 THEN 0 - m ELSE m
        ip   == IntToDigits(a \div Pow10(e))
        fr   == a % Pow10(e)
        fd   == IF e = 0 THEN <<>> ELSE IntToDigits(fr)
        frac == IF e = 0 THEN <<>> ELSE Zeros(e - Len(fd)) \o fd
    IN  (IF m < 0 THEN <<"-">> ELSE <<>>) \o ip \o DOT \o frac \o Zeros(prec - e)

\* the integer of the sign and digits at the start of t; 0 without a digit
SignedDigits(t, sg, n) ==
    IF n = 0 THEN 0
    ELSE IF sg = 1 /\ t[1] = "-" THEN 0 - DigitsVal(SubStr(t, sg + 1, sg + n))
    ELSE DigitsVal(SubStr(t, sg + 1, sg + n))

ScanIntToken(t, sg) == SignedDigits(t, sg, DigitsFrom(t, sg + 1))

\* fmt.Sscanf(value, "%d", &val): the value left in val (0 when the scan fails)
ScanInt(value) ==
    ScanIntToken(TrimLeft(value),
                 IF CharIs(TrimLeft(value), 1, {"+", "-"}) THEN 1 ELSE 0)

\* (*ss).floatToken: the prefix of t that the %f verb hands to ParseFloat; a
\* letter e without exponent digits is part of the token
FloatToken(t) == SubStr(t, 1, ShapeLen(NumShape(t)))

FloatOrZero(p) == IF p.ok THEN [M |-> p.M, E |-> p.E] ELSE [M |-> 0, E |-> 0]

\* fmt.Sscanf(value, "%f", &val): the value left in val (0 when the scan fails)
ScanFloat(value) == FloatOrZero(ParseFloat(FloatToken(TrimLeft(value))))

(***************************************************************************)
(* Values of the output tree (interface{}).  Every value is a record of    *)
(* one shape, told apart by kind: "nil", "map" (map[string]interface{},    *)
(* field m), "slice" ([]interface{}, field s), the basetypes "Int",        *)
(* "Float64", "Bool", "String", and "other" for any other Go value.        *)
(***************************************************************************)
Node(kind) ==
    [kind |-> kind, HasSet |-> FALSE, Unit |-> "", IntVal |-> 0,
     FloatM |-> 0, FloatE |-> 0, BoolVal |-> FALSE, StrVal |-> <<>>,
     m |-> <<>>, s |-> <<>>]

NilV == Node("nil")

MapV(f) == [Node("map") EXCEPT !.m = f]

SliceV(q) == [Node("slice") EXCEPT !.s = q]

EmptyMap == MapV(<<>>)

\* basetypes.Int.Set(val, unit)
IntSet(val, unit) ==
    [Node("Int") EXCEPT !.IntVal = val, !.Unit = unit, !.HasSet = TRUE]

\* basetypes.Float64.Set(val, unit)
Float64Set(val, unit) ==
    [Node("Float64") EXCEPT !.FloatM = val.M, !.FloatE = val.E, !.Unit = unit,
                            !.HasSet = TRUE]

\* basetypes.Bool.Set(val)
BoolSet(val) == [Node("Bool") EXCEPT !.BoolVal = val, !.HasSet = TRUE]

\* basetypes.String.Set(val)
StringSet(val) == [Node("String") EXCEPT !.StrVal = val, !.HasSet = TRUE]

TypedKinds == {"Int", "Float64", "Bool", "String"}

T_int == <<"i", "n", "t">>
T_float == <<"f", "l", "o", "a", "t">>
T_float64 == <<"f", "l", "o", "a", "t", "6", "4">>
T_bool == <<"b", "o", "o", "l">>
T_string == <<"s", "t", "r", "i", "n", "g">>
V_true == <<"t", "r", "u", "e">>

\* castToBaseType with a bool cast that compares without lowering the value
castToBaseTypeCaseSensitive(value, t, unit) ==
    LET lt == ToLower(t) IN
    CASE lt = T_int -> IntSet(ScanInt(value), unit)
      [] lt = T_float \/ lt = T_float64 -> Float64Set(ScanFloat(value), unit)
      [] lt = T_bool -> BoolSet(value = V_true)
      [] lt = T_string -> StringSet(value)
      [] OTHER -> NilV

castToBaseType(value, t, unit) ==
    LET lt == ToLower(t) IN
    CASE lt = T_int -> IntSet(ScanInt(value), unit)
      [] lt = T_float \/ lt = T_float64 -> Float64Set(ScanFloat(value), unit)
      [] lt = T_bool -> BoolSet(ToLower(value) = V_true)
      [] lt = T_string -> StringSet(value)
      [] OTHER -> NilV

\* unitCrunch that renders the product with no more digits than it needs
unitCrunchShortest(value, factor) ==
    LET check == ParseFloat(value)
        fac   == ParseFloat(factor)
        prod  == Normalise(check.M * fac.M, check.E + fac.E)
    IN  IF ~check.ok THEN [val |-> value, err |-> TRUE]
        ELSE [val |-> FormatFloat(prod.M, prod.E, prod.E), err |-> FALSE]

\* the sign bit of the float64 that ParseFloat returned for s
Signbit(s, p) == p.ok /\ s[1] = "-"

\* FormatFloat of a product: a zero keeps the sign of check * fac
FormatProduct(prod, neg) ==
    IF prod.M = 0 /\ neg THEN <<"-">> \o FormatFloat(0, 0, PrecDigits)
    ELSE FormatFloat(prod.M, prod.E, PrecDigits)

\* unitCrunch: [val, err]
unitCrunch(value, factor) ==
    LET check == ParseFloat(value)
        fac   == ParseFloat(factor)
        prod  == Normalise(check.M * fac.M, check.E + fac.E)
    IN  IF ~check.ok THEN [val |-> value, err |-> TRUE]
        ELSE [val |-> FormatProduct(prod, Signbit(value, check) # Signbit(factor, fac)),
              err |-> FALSE]

applyUnitCrunch(crunch, rawValue, row) ==
    IF crunch # <<>>
    THEN LET c == unitCrunch(rawValue, crunch)
         IN  IF ~c.err THEN c.val ELSE rawValue
    ELSE rawValue

processValue(rawValue, crunch, row) ==
    castToBaseType(applyUnitCrunch(crunch, rawValue, row), row.Type, row.Units)

(***************************************************************************)
(* insertNested.  A failed type assertion panics; nothing recovers, so the *)
(* panic ends the process.  The operators that can panic return            *)
(* [t, panic]: the tree and whether the call panicked.                     *)
(***************************************************************************)
Put(f, key, val) == (key :> val) @@ f

RECURSIVE insertNestedFresh(_, _, _)
\* insertNested that makes a new container for every intermediate key, also
\* where one exists
insertNestedFresh(obj, path, val) ==
    IF Len(path) = 0 THEN [t |-> obj, panic |-> FALSE]
    ELSE IF Len(path) = 1 THEN [t |-> Put(obj, path[1], val), panic |-> FALSE]
    ELSE [t |-> Put(obj, path[1],
                    MapV(insertNestedFresh(<<>>, Tail(path), val).t)),
          panic |-> FALSE]

RECURSIVE insertNested(_, _, _)

\* the container curr with the result r of the call on its child at key
WithChild(curr, key, r) == [t |-> Put(curr, key, MapV(r.t)), panic |-> r.panic]

\* curr[key].(map[string]interface{}) and the rest of the path below it
insertBelow(curr, path, val) ==
    IF curr[path[1]].kind # "map" THEN [t |-> curr, panic |-> TRUE]
    ELSE WithChild(curr, path[1], insertNested(curr[path[1]].m, Tail(path), val))

\* obj is the function of a map value; the result's t is a function too
insertNested(obj, path, val) ==
    IF Len(path) = 0 THEN [t |-> obj, panic |-> FALSE]
    ELSE IF Len(path) = 1 THEN [t |-> Put(obj, path[1], val), panic |-> FALSE]
    ELSE insertBelow(IF path[1] \in DOMAIN obj THEN obj
                     ELSE Put(obj, path[1], EmptyMap),
                     path, val)

(***************************************************************************)
(* CleanMap.                                                               *)
(***************************************************************************)
RECURSIVE CleanMap(_)
RECURSIVE CleanSlice(_)

\* the loop over a []interface{}: the cleaned elements that are not nil
CleanSlice(q) ==
    IF Len(q) = 0 THEN <<>>
    ELSE LET c == CleanMap(q[1])
         IN  (IF c.kind # "nil" THEN <<c>> ELSE <<>>) \o CleanSlice(Tail(q))

\* CleanMap that keeps a container or a sequence that became empty
CleanMapKeepEmpty(data) ==
    CASE data.kind = "map" ->
            LET keep == {k \in DOMAIN data.m : CleanMap(data.m[k]).kind # "nil"}
            IN  MapV([k \in keep |-> CleanMap(data.m[k])])
      [] data.kind = "slice" -> SliceV(CleanSlice(data.s))
      [] data.kind \in TypedKinds -> IF data.HasSet THEN data ELSE NilV
      [] OTHER -> data

\* CleanMap that tests the child, not the cleaned child, against nil
CleanMapTestsChild(data) ==
    CASE data.kind = "map" ->
            LET keep == {k \in DOMAIN data.m : data.m[k].kind # "nil"}
            IN  IF keep = {} THEN NilV
                ELSE MapV([k \in keep |-> CleanMap(data.m[k])])
      [] data.kind = "slice" ->
            LET c == CleanSlice(data.s)
            IN  IF Len(c) = 0 THEN NilV ELSE SliceV(c)
      [] data.kind \in TypedKinds -> IF data.HasSet THEN data ELSE NilV
      [] OTHER -> data

CleanMap(data) ==
    CASE data.kind = "map" ->
            LET keep == {k \in DOMAIN data.m : CleanMap(data.m[k]).kind # "nil"}
            IN  IF keep = {} THEN NilV
                ELSE MapV([k \in keep |-> CleanMap(data.m[k])])
      [] data.kind = "slice" ->
            LET c == CleanSlice(data.s)
            IN  IF Len(c) = 0 THEN NilV ELSE SliceV(c)
      [] data.kind \in TypedKinds -> IF data.HasSet THEN data ELSE NilV
      [] OTHER -> data

(***************************************************************************)
(* The first pass (mapping.go).  A mapping rule is a csvextract record;    *)
(* Units is kept as an opaque string, the other columns are character      *)
(* sequences.  The deferred registry dynamicFieldPatterns is threaded      *)
(* through the operators that append to it (dyn).                          *)
(***************************************************************************)
Row(oscem, fromXML, fromMDOC, optMDOC, units, crunchXML, crunchMDOC, optXML, type) ==
    [OSCEM |-> oscem, FromXML |-> fromXML, FromMDOC |-> fromMDOC,
     OptionalsMDOC |-> optMDOC, Units |-> units, CrunchFromXML |-> crunchXML,
     CrunchFromMDOC |-> crunchMDOC, OptionalsXML |-> optXML, Type |-> type]

\* storeUnmappedField without the search for a stored pattern
storeUnmappedFieldNoSearch(dyn, row, fieldName) ==
    IF Contains(fieldName, WILDCARD) /\ Contains(row.OSCEM, WILDCARD)
    THEN Append(dyn, Row(row.OSCEM, <<>>, fieldName, row.OptionalsMDOC,
                         row.Units, <<>>, row.CrunchFromMDOC, <<>>, row.Type))
    ELSE dyn

storeUnmappedField(dyn, row, fieldName) ==
    IF Contains(fieldName, WILDCARD)
    THEN LET alreadyStored ==
                 \E k \in 1..Len(dyn) : dyn[k].FromMDOC = fieldName
         IN  IF ~alreadyStored /\ Contains(row.OSCEM, WILDCARD)
             THEN Append(dyn, Row(row.OSCEM, <<>>, fieldName, row.OptionalsMDOC,
                                  row.Units, <<>>, row.CrunchFromMDOC, <<>>,
                                  row.Type))
             ELSE dyn
    ELSE dyn

RECURSIVE extractFieldNames(_, _, _, _)
\* the loop over fieldNames of extractValuesFromInput: [values, found, dyn]
extractFieldNames(row, in, fieldNames, dyn) ==
    IF Len(fieldNames) = 0 THEN [values |-> <<>>, found |-> FALSE, dyn |-> dyn]
    ELSE LET fieldName == TrimSpace(fieldNames[1])
             exists    == fieldName # <<>> /\ fieldName \in DOMAIN in
             dyn1      == IF fieldName = <<>> \/ exists THEN dyn
                          ELSE storeUnmappedField(dyn, row, fieldName)
             rest      == extractFieldNames(row, in, Tail(fieldNames), dyn1)
         IN  [values |-> <<IF exists THEN in[fieldName] ELSE <<>>>> \o rest.values,
              found  |-> exists \/ rest.found,
              dyn    |-> rest.dyn]

\* extractValuesFromInput that looks the names up without trimming them
extractValuesFromInputNoTrim(row, in, key, dyn) ==
    IF Contains(key, SEMI)
    THEN LET names == Split(key, SEMI)
         IN  [values |-> [k \in 1..Len(names) |->
                             IF names[k] \in DOMAIN in THEN in[names[k]] ELSE <<>>],
              found  |-> \E k \in 1..Len(names) : names[k] \in DOMAIN in,
              dyn    |-> dyn]
    ELSE IF key \in DOMAIN in
         THEN [values |-> <<in[key]>>, found |-> TRUE, dyn |-> dyn]
         ELSE [values |-> <<>>, found |-> FALSE,
               dyn |-> storeUnmappedField(dyn, row, key)]

\* [values, found, dyn]; values = <<>> stands for the nil slice
extractValuesFromInput(row, in, key, dyn) ==
    IF Contains(key, SEMI)
    THEN extractFieldNames(row, in, Split(key, SEMI), dyn)
    ELSE IF key \in DOMAIN in
         THEN [values |-> <<in[key]>>, found |-> TRUE, dyn |-> dyn]
         ELSE [values |-> <<>>, found |-> FALSE,
               dyn |-> storeUnmappedField(dyn, row, key)]

\* the checks of findMatchingValues with the two tier-1 columns exchanged
checksPrimaryFirst(row) ==
    << [field |-> row.FromMDOC,      crunch |-> row.CrunchFromMDOC],
       [field |-> row.OptionalsMDOC, crunch |-> row.CrunchFromMDOC],
       [field |-> row.OptionalsXML,  crunch |-> row.CrunchFromXML],
       [field |-> row.FromXML,       crunch |-> row.CrunchFromXML] >>

\* the priority list of findMatchingValues
checks(row) ==
    << [field |-> row.OptionalsMDOC, crunch |-> row.CrunchFromMDOC],
       [field |-> row.FromMDOC,      crunch |-> row.CrunchFromMDOC],
       [field |-> row.OptionalsXML,  crunch |-> row.CrunchFromXML],
       [field |-> row.FromXML,       crunch |-> row.CrunchFromXML] >>

RECURSIVE findInChecks(_, _, _, _)
\* the loop of findMatchingValues over the remaining checks cs
findInChecks(row, in, cs, dyn) ==
    IF Len(cs) = 0
    THEN [values |-> <<>>, crunch |-> <<>>, found |-> FALSE, dyn |-> dyn]
    ELSE IF cs[1].field # <<>>
         THEN LET e == extractValuesFromInput(row, in, cs[1].field, dyn)
              IN  IF e.found
                  THEN [values |-> e.values, crunch |-> cs[1].crunch,
                        found |-> TRUE, dyn |-> e.dyn]
                  ELSE findInChecks(row, in, Tail(cs), e.dyn)
         ELSE findInChecks(row, in, Tail(cs), dyn)

\* [values, crunch, found, dyn]
findMatchingValues(row, in, dyn) == findInChecks(row, in, checks(row), dyn)

\* [arrayPath, arrayName, propertyName]; called only when oscem contains [N]
parseArrayPath(oscem) ==
    LET parts       == Split(oscem, WILDCARD)
        beforeParts == Split(parts[1], DOT)
    IN  [arrayPath    |-> SubStr(beforeParts, 1, Len(beforeParts) - 1),
         arrayName    |-> beforeParts[Len(beforeParts)],
         propertyName |-> TrimPrefix(parts[2], DOT)]

\* [t, panic]; res is the function of the result map
handleRegularField(res, row, values, crunch) ==
    IF Len(values) > 0
    THEN insertNested(res, Split(row.OSCEM, DOT), processValue(values[1], crunch, row))
    ELSE [t |-> res, panic |-> FALSE]

RECURSIVE growArray(_, _)
\* for len(arr) < i+1 { arr = append(arr, make(map[string]interface{})) }
growArray(arr, n) == IF Len(arr) < n THEN growArray(Append(arr, EmptyMap), n) ELSE arr

RECURSIVE fillArray(_, _, _, _, _, _)

\* the rest of the loop after insertNested returned r for element k
fillStored(grown, r, values, k, propertyName, crunch, row) ==
    IF r.panic THEN [arr |-> grown, panic |-> TRUE]
    ELSE fillArray([grown EXCEPT ![k] = MapV(r.t)], values, k + 1, propertyName,
                   crunch, row)

\* arr[i].(map[string]interface{}) and the insert into it
fillGrown(grown, values, k, propertyName, crunch, row) ==
    IF grown[k].kind # "map" THEN [arr |-> grown, panic |-> TRUE]
    ELSE fillStored(grown,
                    insertNested(grown[k].m, Split(propertyName, DOT),
                                 processValue(values[k], crunch, row)),
                    values, k, propertyName, crunch, row)

\* the loop "for i, rawValue := range rawValues" from index k on: [arr, panic]
fillArray(arr, values, k, propertyName, crunch, row) ==
    IF k > Len(values) THEN [arr |-> arr, panic |-> FALSE]
    ELSE IF values[k] = <<>> THEN fillArray(arr, values, k + 1, propertyName, crunch, row)
    ELSE fillGrown(growArray(arr, k), values, k, propertyName, crunch, row)

RECURSIVE arrayFieldAt(_, _, _, _, _, _)

\* parent[segment].(map[string]interface{}) and the walk below it
arrayDescend(curr, segs, p, values, crunch, row) ==
    IF curr[segs[1]].kind # "map" THEN [t |-> curr, panic |-> TRUE]
    ELSE WithChild(curr, segs[1],
                   arrayFieldAt(curr[segs[1]].m, Tail(segs), p, values, crunch, row))

\* parent[arrayName] = arr
arrayStore(curr, p, f) ==
    IF f.panic THEN [t |-> curr, panic |-> TRUE]
    ELSE [t |-> Put(curr, p.arrayName, SliceV(f.arr)), panic |-> FALSE]

\* parent[arrayName].([]interface{}) and the loop over the raw values
arrayFill(curr, p, values, crunch, row) ==
    IF curr[p.arrayName].kind # "slice" THEN [t |-> curr, panic |-> TRUE]
    ELSE arrayStore(curr, p,
                    fillArray(curr[p.arrayName].s, values, 1, p.propertyName,
                              crunch, row))

\* handleArrayField from the container parent on, segs the segments still to walk
arrayFieldAt(parent, segs, p, values, crunch, row) ==
    IF Len(segs) > 0
    THEN arrayDescend(IF segs[1] \in DOMAIN parent THEN parent
                      ELSE Put(parent, segs[1], EmptyMap),
                      segs, p, values, crunch, row)
    ELSE arrayFill(IF p.arrayName \in DOMAIN parent THEN parent
                   ELSE Put(parent, p.arrayName, SliceV(<<>>)),
                   p, values, crunch, row)

\* [t, panic]; res is the function of the result map
handleArrayField(res, row, values, crunch) ==
    arrayFieldAt(res, parseArrayPath(row.OSCEM).arrayPath, parseArrayPath(row.OSCEM),
                 values, crunch, row)

(***************************************************************************)
(* The second pass (arrays.go).  A Go map is ranged over in an arbitrary   *)
(* order: where the order can matter, the operators take the order in      *)
(* which the keys are visited (visit, a sequence) as a parameter, and the  *)
(* action chooses it.                                                      *)
(***************************************************************************)
getFieldPattern(row) ==
    IF row.FromMDOC # <<>> THEN row.FromMDOC
    ELSE IF row.OptionalsMDOC # <<>> THEN row.OptionalsMDOC
    ELSE <<>>

getCrunchFactor(row) ==
    IF row.FromMDOC # <<>> THEN row.CrunchFromMDOC
    ELSE IF row.OptionalsMDOC # <<>> THEN row.CrunchFromMDOC
    ELSE IF row.FromXML # <<>> THEN row.CrunchFromXML
    ELSE IF row.OptionalsXML # <<>> THEN row.CrunchFromXML
    ELSE <<>>

\* the characters regexp.QuoteMeta escapes
RegexMeta == {"\\", ".", "+", "*", "?", "(", ")", "|", "[", "]", "{", "}", "^", "$"}

RECURSIVE QuoteMeta(_)
QuoteMeta(s) ==
    IF Len(s) = 0 THEN <<>>
    ELSE (IF s[1] \in RegexMeta THEN <<"\\", s[1]>> ELSE <<s[1]>>) \o QuoteMeta(Tail(s))

RECURSIVE ReplaceAll(_, _, _)
ReplaceAll(s, old, new) ==
    LET k == IndexOf(s, old) IN
    IF k = 0 THEN s
    ELSE SubStr(s, 1, k - 1) \o new
           \o ReplaceAll(SubStr(s, k + Len(old), Len(s)), old, new)

EscapedWildcard == <<"\\", "[", "N", "\\", "]">>
CaptureGroup == <<"(", "[", "^", ".", "]", "+", ")">>

\* the regex source, or <<>> when the pattern holds no [N]
convertPatternToRegex(fieldPattern) ==
    IF ~Contains(fieldPattern, WILDCARD) THEN <<>>
    ELSE <<"^">> \o ReplaceAll(QuoteMeta(fieldPattern), EscapedWildcard, CaptureGroup)
           \o <<"$">>

RECURSIVE regexTokens(_)
\* regexp.MustCompile on the body of a regex that convertPatternToRegex built:
\* a sequence of literal characters and capture groups ([^.]+)
regexTokens(re) ==
    IF Len(re) = 0 THEN <<>>
    ELSE IF HasPrefixAt(re, 1, CaptureGroup)
         THEN <<[group |-> TRUE, c |-> ""]>>
                \o regexTokens(SubStr(re, Len(CaptureGroup) + 1, Len(re)))
    ELSE IF re[1] = "\\"
         THEN <<[group |-> FALSE, c |-> re[2]]>> \o regexTokens(SubStr(re, 3, Len(re)))
    ELSE <<[group |-> FALSE, c |-> re[1]]>> \o regexTokens(Tail(re))

\* a capture group that takes every character, the separator included
AnyPrefixLen(s) == Len(s)

RECURSIVE NonDotPrefixLen(_)
NonDotPrefixLen(s) ==
    IF Len(s) > 0 /\ s[1] # "." THEN 1 + NonDotPrefixLen(Tail(s)) ELSE 0

RECURSIVE matchTokens(_, _)
\* the anchored match of the tokens against all of str: [ok, groups]; a group
\* is greedy, as Go's leftmost-first match makes it
matchTokens(toks, str) ==
    IF Len(toks) = 0 THEN [ok |-> Len(str) = 0, groups |-> <<>>]
    ELSE IF ~toks[1].group
         THEN IF Len(str) > 0 /\ str[1] = toks[1].c
              THEN matchTokens(Tail(toks), Tail(str))
              ELSE [ok |-> FALSE, groups |-> <<>>]
    ELSE LET fits == {n \in 1..NonDotPrefixLen(str) :
                         matchTokens(Tail(toks), SubStr(str, n + 1, Len(str))).ok}
         IN  IF fits = {} THEN [ok |-> FALSE, groups |-> <<>>]
             ELSE LET n == CHOOSE x \in fits : \A y \in fits : y <= x
                      r == matchTokens(Tail(toks), SubStr(str, n + 1, Len(str)))
                  IN  [ok |-> TRUE, groups |-> <<SubStr(str, 1, n)>> \o r.groups]

\* regex.FindStringSubmatch(inputKey) for the regex of fieldPattern:
\* [ok, groups], the match having len(matches) >= 2 iff ok
findStringSubmatch(fieldPattern, inputKey) ==
    LET re == convertPatternToRegex(fieldPattern)
    IN  IF re = <<>> THEN [ok |-> FALSE, groups |-> <<>>]
        ELSE matchTokens(regexTokens(SubStr(re, 2, Len(re) - 1)), inputKey)

\* the target array path that groupArrayInputs joins from parseArrayPathFromOSCEM
targetArrayPathOf(oscem) ==
    IF ~Contains(oscem, WILDCARD) THEN <<>>
    ELSE LET beforeParts == Split(Split(oscem, WILDCARD)[1], DOT)
         IN  Join(SubStr(beforeParts, 1, Len(beforeParts) - 1)
                    \o <<beforeParts[Len(beforeParts)]>>, DOT)

extractPropertyName(oscem) ==
    LET parts == Split(oscem, WILDCARD)
    IN  IF Len(parts) = 2 THEN TrimPrefix(parts[2], DOT) ELSE <<>>

\* the keys of prefixGroups: the text before [N] of every registered pattern
prefixesOf(dyn) ==
    {Split(getFieldPattern(dyn[k]), WILDCARD)[1] :
        k \in {j \in 1..Len(dyn) : /\ getFieldPattern(dyn[j]) # <<>>
                                   /\ Contains(getFieldPattern(dyn[j]), WILDCARD)}}

\* prefixGroups[prefix]: the indices in dyn of the group's patterns, in order
groupMembers(dyn, prefix) ==
    {k \in 1..Len(dyn) : /\ getFieldPattern(dyn[k]) # <<>>
                         /\ Contains(getFieldPattern(dyn[k]), WILDCARD)
                         /\ Split(getFieldPattern(dyn[k]), WILDCARD)[1] = prefix}

\* the target array path of a prefix group: that of patterns[0]
groupTarget(dyn, prefix) ==
    LET first == CHOOSE k \in groupMembers(dyn, prefix) :
                    \A j \in groupMembers(dyn, prefix) : k <= j
    IN  targetArrayPathOf(dyn[first].OSCEM)

\* groupArrayInputs, as the set of its assignments
\* inputs[targetArrayPath][arrayIndex][inputKey] = inputValue: the triples
\* <<targetArrayPath, arrayIndex, inputKey>>
groupArrayInputs(in, dyn) ==
    {t \in UNION {
        {<<groupTarget(dyn, prefix),
           findStringSubmatch(getFieldPattern(dyn[k]), key).groups[1], key>> :
            key \in {x \in DOMAIN in :
                        findStringSubmatch(getFieldPattern(dyn[k]), x).ok}} :
        <<prefix, k>> \in {pk \in prefixesOf(dyn) \X (1..Len(dyn)) :
                              pk[2] \in groupMembers(dyn, pk[1])}}
      : t[1] # <<>>}

RECURSIVE sortByLength(_)
\* an ordering that puts a shorter string first, as a numeric sort of
\* numerals would
sortByLength(set) ==
    IF set = {} THEN <<>>
    ELSE LET lo == CHOOSE x \in set :
                      \A y \in set \ {x} :
                          Len(x) < Len(y) \/ (Len(x) = Len(y) /\ StrLess(x, y))
         IN  <<lo>> \o sortByLength(set \ {lo})

RECURSIVE sortStrings(_)
\* sort.Strings over the keys of arrayIndices
sortStrings(set) ==
    IF set = {} THEN <<>>
    ELSE LET lo == CHOOSE x \in set : \A y \in set \ {x} : StrLess(x, y)
         IN  <<lo>> \o sortStrings(set \ {lo})

RECURSIVE firstMatch(_, _, _)
\* the first key of the sub-document, in visiting order, that the pattern
\* matches; <<>> when none does (a key is never empty here)
firstMatch(visit, keys, fieldPattern) ==
    IF Len(visit) = 0 THEN <<>>
    ELSE IF visit[1] \in keys /\ findStringSubmatch(fieldPattern, visit[1]).ok
         THEN visit[1]
         ELSE firstMatch(Tail(visit), keys, fieldPattern)

RECURSIVE processRows(_, _, _, _, _, _)

\* singleInput[propertyName] = value, or insertNested for a dotted name
storeProperty(singleInput, propertyName, value) ==
    IF Contains(propertyName, DOT)
    THEN insertNested(singleInput, Split(propertyName, DOT), value)
    ELSE [t |-> Put(singleInput, propertyName, value), panic |-> FALSE]

\* the rows after row k, whose store returned r
rowStored(r, in, keys, dyn, k, visit) ==
    IF r.panic THEN r ELSE processRows(r.t, in, keys, dyn, k + 1, visit)

\* row k with the key hit that its pattern matched first (<<>> for none)
rowMatched(singleInput, in, keys, dyn, k, visit, hit, propertyName) ==
    IF hit = <<>> \/ propertyName = <<>>
    THEN processRows(singleInput, in, keys, dyn, k + 1, visit)
    ELSE rowStored(storeProperty(singleInput, propertyName,
                                 processValue(in[hit], getCrunchFactor(dyn[k]), dyn[k])),
                   in, keys, dyn, k, visit)

\* the loop of processSingleInput over dynamicFieldPatterns from row k on;
\* keys are the keys of the element's sub-document: [t, panic]
processRows(singleInput, in, keys, dyn, k, visit) ==
    IF k > Len(dyn) THEN [t |-> singleInput, panic |-> FALSE]
    ELSE IF \/ ~Contains(dyn[k].OSCEM, WILDCARD)
            \/ getFieldPattern(dyn[k]) = <<>>
            \/ convertPatternToRegex(getFieldPattern(dyn[k])) = <<>>
         THEN processRows(singleInput, in, keys, dyn, k + 1, visit)
         ELSE rowMatched(singleInput, in, keys, dyn, k, visit,
                         firstMatch(visit, keys, getFieldPattern(dyn[k])),
                         extractPropertyName(dyn[k].OSCEM))

\* [t, panic]
processSingleInput(in, keys, dyn, visit) == processRows(<<>>, in, keys, dyn, 1, visit)

RECURSIVE processIndices(_, _, _, _, _, _)

\* arrayData = append(arrayData, processedElement) when the element is not empty
indexKept(index, e, rest) ==
    [data  |-> (IF DOMAIN e.t # {}
                THEN <<[index |-> index, element |-> MapV(e.t)]>>
                ELSE <<>>) \o rest.data,
     panic |-> rest.panic]

\* the indices after the first, whose element is e
indexElement(in, grouped, arrayPath, indices, dyn, visit, e) ==
    IF e.panic THEN [data |-> <<>>, panic |-> TRUE]
    ELSE indexKept(indices[1], e,
                   processIndices(in, grouped, arrayPath, Tail(indices), dyn, visit))

\* the loop of processEachArrayType over sortedIndices: [data, panic], data the
\* elements kept, each with the index (the captured value) it was built for
processIndices(in, grouped, arrayPath, indices, dyn, visit) ==
    IF Len(indices) = 0 THEN [data |-> <<>>, panic |-> FALSE]
    ELSE indexElement(in, grouped, arrayPath, indices, dyn, visit,
                      processSingleInput(in,
                          {t[3] : t \in {x \in grouped : /\ x[1] = arrayPath
                                                         /\ x[2] = indices[1]}},
                          dyn, visit))

\* arrayResults[arrayPath] = arrayData for the arrays that are not empty
arrayResultsOf(all) ==
    [arrays |-> [ap \in {a \in DOMAIN all : Len(all[a].data) > 0} |-> all[ap].data],
     panic  |-> \E ap \in DOMAIN all : all[ap].panic]

\* [arrays, panic]: arrays[arrayPath] is the kept data of that array
processEachArrayType(in, grouped, dyn, visit) ==
    arrayResultsOf([ap \in {t[1] : t \in grouped} |->
                       processIndices(in, grouped, ap,
                           sortStrings({t[2] : t \in {x \in grouped : x[1] = ap}}),
                           dyn, visit)])

RECURSIVE addItemsAt(_, _, _)
\* addItemsToArrayPath from the container parent on
addItemsAt(parent, parts, items) ==
    IF Len(parts) > 1
    THEN LET key  == parts[1]
             curr == IF key \in DOMAIN parent THEN parent ELSE Put(parent, key, EmptyMap)
         IN  IF curr[key].kind # "map" THEN curr
             ELSE Put(curr, key, MapV(addItemsAt(curr[key].m, Tail(parts), items)))
    ELSE LET arrayName == parts[1]
             existing  == IF arrayName \in DOMAIN parent /\ parent[arrayName].kind = "slice"
                          THEN parent[arrayName].s ELSE <<>>
         IN  Put(parent, arrayName, SliceV(existing \o items))

\* res is the function of the result map; items is not empty
addItemsToArrayPath(res, items, arrayPath) ==
    IF Len(items) = 0 THEN res ELSE addItemsAt(res, Split(arrayPath, DOT), items)

RECURSIVE addArrays(_, _, _)
\* the loop "for arrayPath, arrayData := range processedArrays" in the order given
addArrays(res, arrays, order) ==
    IF Len(order) = 0 THEN res
    ELSE addArrays(addItemsToArrayPath(res,
                       [k \in 1..Len(arrays[order[1]]) |-> arrays[order[1]][k].element],
                       order[1]),
                   arrays, Tail(order))

Perms(set) ==
    {f \in [1..Cardinality(set) -> set] : \A a, b \in 1..Cardinality(set) : a # b => f[a] # f[b]}

(***************************************************************************)
(* The mapping tables and input documents of the model.  A table is a      *)
(* sequence of at most MaxRows rules of one pool; a document holds at most *)
(* MaxKeys of the pool's keys.                                             *)
(***************************************************************************)
s_a == <<"a">>
s_d == <<"d">>
s_b == <<"b">>
s_c == <<"c">>
s_x == <<"x">>
s_y == <<"y">>
s_xy == <<"x", ";", "y">>
s_x_y == <<"x", ";", " ", "y">>
s_sx == <<"s", ".", "x">>
s_sxz == <<"s", ".", "x", ".", "z">>
s_dNv == <<"d", "[", "N", "]", ".", "v">>
s_dNw == <<"d", "[", "N", "]", ".", "w">>
s_dNn == <<"d", "[", "N", "]", ".", "n">>
s_dNm == <<"d", "[", "N", "]", ".", "m">>
s_dNl == <<"d", "[", "N", "]", ".", "l">>
s_eNn == <<"e", "[", "N", "]", ".", "n">>
s_pNn == <<"p", "[", "N", "]", ".", "n">>
s_pNm == <<"p", "[", "N", "]", ".", "m">>
s_pNk == <<"p", "[", "N", "]", ".", "k">>
s_p1n == <<"p", "1", ".", "n">>
s_p1m == <<"p", "1", ".", "m">>
s_p2n == <<"p", "2", ".", "n">>
s_p10n == <<"p", "1", "0", ".", "n">>
s_p2k == <<"p", "2", ".", "k">>
T_String == <<"S", "t", "r", "i", "n", "g">>
T_Int == <<"I", "n", "t">>
T_Float64 == <<"F", "l", "o", "a", "t", "6", "4">>
T_text == <<"t", "e", "x", "t">>
f_half == <<"0", ".", "5">>

\* literal rules: tiers, a list pattern on a plain and on an array target, an
\* unrecognised type, a target below another rule's leaf whose value is not
\* a number although the rule has a unit factor
LiteralRules ==
    { Row(s_sx, s_c, s_a, s_b, "mm", <<>>, f_half, <<>>, T_Float64),
      Row(s_sx, <<>>, s_xy, <<>>, "", <<>>, <<>>, <<>>, T_string),
      Row(s_sx, <<>>, s_y, <<>>, "", <<>>, <<>>, <<>>, T_text),
      Row(s_dNv, <<>>, s_x_y, <<>>, "", <<>>, <<>>, <<>>, T_Int),
      Row(s_dNw, <<>>, s_a, <<>>, "", <<>>, <<>>, <<>>, T_text),
      Row(s_sxz, <<>>, s_b, <<>>, "", <<>>, f_half, <<>>, T_string) }

LiteralDoc ==
    (s_a :> <<"1">>) @@ (s_b :> <<"a", "b">>) @@ (s_x :> <<>>) @@ (s_y :> <<"2">>)

\* wildcard rules: two fields of one array (one with its pattern in two
\* tiers), a second rule on the same source pattern, a rule for another array
\* whose pattern has the same prefix
WildcardRules ==
    { Row(s_dNn, <<>>, s_pNn, <<>>, "", <<>>, <<>>, <<>>, T_String),
      Row(s_dNm, <<>>, s_pNm, s_pNm, "", <<>>, <<>>, <<>>, T_Int),
      Row(s_dNl, <<>>, s_pNn, <<>>, "", <<>>, <<>>, <<>>, T_String),
      Row(s_eNn, <<>>, s_pNk, <<>>, "", <<>>, <<>>, <<>>, T_String) }

WildcardDoc ==
    (s_p1n :> <<"f">>) @@ (s_p1m :> <<"3">>) @@ (s_p2n :> <<"k">>)
      @@ (s_p10n :> <<"g">>) @@ (s_p2k :> <<"q">>)

s_pNN == <<"p", "[", "N", "]", ".", "[", "N", "]">>
s_p2m == <<"p", "2", ".", "m">>

\* wildcard rules with unit factors: a pattern in a tier-2 column with a
\* tier-2 factor, a rule with a wildcard pattern and a literal name in tier 1
\* with a tier-1 factor, a pattern with two [N]
TierRules ==
    { Row(s_dNn, s_pNn, <<>>, <<>>, "", f_half, <<>>, <<>>, T_Float64),
      Row(s_dNm, <<>>, s_p1m, s_pNm, "", <<>>, f_half, <<>>, T_Float64),
      Row(s_dNl, <<>>, s_pNN, <<>>, "", <<>>, <<>>, <<>>, T_String) }

TierDoc ==
    (s_p1n :> <<"3">>) @@ (s_p1m :> <<"4">>) @@ (s_p2m :> <<"6">>)

Pools == { [rules |-> LiteralRules, doc |-> LiteralDoc],
           [rules |-> WildcardRules, doc |-> WildcardDoc],
           [rules |-> TierRules, doc |-> TierDoc] }

TablesOf(pool) == UNION {[1..n -> pool.rules] : n \in 0..MaxRows}

DocsOf(pool) ==
    {[k \in ks |-> pool.doc[k]] :
        ks \in {x \in SUBSET DOMAIN pool.doc : Cardinality(x) <= MaxKeys}}

\* the -cs and -gain_flip_rotate flags: both absent, or both given
Flags == { [p1 |-> <<>>, p2 |-> <<>>], [p1 |-> <<"2", ".", "7">>, p2 |-> <<"f">>] }

(***************************************************************************)
(* Convert: one conversion, step by step.                                  *)
(***************************************************************************)
Init ==
    /\ \E pool \in Pools : rows \in TablesOf(pool) /\ input \in DocsOf(pool)
    /\ p1Flag = <<>>
    /\ p2Flag = <<>>
    /\ pc = "start"
    /\ i = 1
    /\ result = NilV
    /\ dynamicFieldPatterns = <<>>
    /\ rawValues = <<>>
    /\ crunchFactor = <<>>
    /\ found = FALSE
    /\ arrayResults = <<>>
    /\ out = NilV
    /\ arg = <<>>
    /\ ret = <<>>
    /\ stack = <<>>

\* convertToHierarchicalJSON that does not clear the registry
ConvertStartKeepsRegistry ==
    /\ pc = "start"
    /\ result' = EmptyMap
    /\ dynamicFieldPatterns' = dynamicFieldPatterns
    /\ i' = 1
    /\ pc' = IF Len(rows) = 0 THEN "second" ELSE "first"
    /\ UNCHANGED <<rows, input, p1Flag, p2Flag, rawValues, crunchFactor, found,
                   arrayResults, out, arg, ret, stack>>

\* convertToHierarchicalJSON up to the first pass: the tree is made and the
\* registry cleared
ConvertStart ==
    /\ pc = "start"
    /\ result' = EmptyMap
    /\ dynamicFieldPatterns' = <<>>
    /\ i' = 1
    /\ pc' = IF Len(rows) = 0 THEN "second" ELSE "first"
    /\ UNCHANGED <<rows, input, p1Flag, p2Flag, rawValues, crunchFactor, found,
                   arrayResults, out, arg, ret, stack>>

\* handleArrayField or handleRegularField for a row that was found: [t, panic]
handleRow(res, row, f) ==
    IF ~f.found THEN [t |-> res, panic |-> FALSE]
    ELSE IF Contains(row.OSCEM, WILDCARD)
    THEN handleArrayField(res, row, f.values, f.crunch)
    ELSE handleRegularField(res, row, f.values, f.crunch)

\* the state after the iteration that found f and handled it with outcome h
RowDone(f, h) ==
    /\ rawValues' = f.values
    /\ crunchFactor' = f.crunch
    /\ found' = f.found
    /\ dynamicFieldPatterns' = f.dyn
    /\ result' = IF h.panic THEN result ELSE MapV(h.t)
    /\ pc' = IF h.panic THEN "panic"
             ELSE IF i = Len(rows) THEN "second" ELSE "first"

RowFound(row, f) == RowDone(f, handleRow(result.m, row, f))

\* one iteration of the loop of processRegularMappings.  After a panic the
\* process is gone: the tree is left as it was before the iteration.
ProcessRow ==
    /\ pc = "first"
    /\ i <= Len(rows)
    /\ RowFound(rows[i], findMatchingValues(rows[i], input, dynamicFieldPatterns))
    /\ i' = i + 1
    /\ UNCHANGED <<rows, input, p1Flag, p2Flag, arrayResults, out, arg, ret, stack>>

\* the arrays e of processEachArrayType added to the result, in some order
ArraysAdded(e) ==
    IF e.panic
    THEN /\ arrayResults' = <<>>
         /\ result' = result
         /\ pc' = "panic"
    ELSE \E order \in Perms(DOMAIN e.arrays) :
           /\ arrayResults' = e.arrays
           /\ result' = MapV(addArrays(result.m, e.arrays, order))
           /\ pc' = "inject"

\* the second pass over the grouped inputs
SecondPass(grouped) ==
    IF Len(dynamicFieldPatterns) = 0 \/ grouped = {}
    THEN /\ arrayResults' = <<>>
         /\ result' = result
         /\ pc' = "inject"
    ELSE \E visit \in Perms(DOMAIN input) :
           ArraysAdded(processEachArrayType(input, grouped, dynamicFieldPatterns, visit))

\* processDynamicArrayFields(result, dynamicFieldPatterns, input)
ProcessDynamicArrayFields ==
    /\ pc = "second"
    /\ SecondPass(groupArrayInputs(input, dynamicFieldPatterns))
    /\ UNCHANGED <<rows, input, p1Flag, p2Flag, i, dynamicFieldPatterns,
                   rawValues, crunchFactor, found, out, arg, ret, stack>>

\* the paths "instrument"/"cs" and "acquisition"/"gainref_flip_rotate", their
\* names shortened
p_instrument_cs == << <<"i", "n", "s", "t">>, <<"c", "s">> >>
p_acquisition_grf == << <<"a", "c", "q">>, <<"g", "f", "r">> >>

\* Convert: the two constants, read from the flags here for the first time,
\* are cast and inserted
InjectConstants ==
    /\ pc = "inject"
    /\ \E fl \in Flags :
         LET casted  == castToBaseType(fl.p1, T_float64, "mm")
             casted2 == castToBaseType(fl.p2, T_string, "")
             r1      == insertNested(result.m, p_instrument_cs, casted)
             r2      == insertNested(r1.t, p_acquisition_grf, casted2)
         IN  /\ p1Flag' = fl.p1
             /\ p2Flag' = fl.p2
             /\ IF r1.panic \/ r2.panic
                THEN result' = result /\ pc' = "panic"
                ELSE result' = MapV(r2.t) /\ pc' = "clean"
    /\ UNCHANGED <<rows, input, i, dynamicFieldPatterns,
                   rawValues, crunchFactor, found, arrayResults, out, arg, ret, stack>>

\* Convert: cleaned := CleanMap(out)
Clean ==
    /\ pc = "clean"
    /\ out' = CleanMap(result)
    /\ pc' = "done"
    /\ UNCHANGED <<rows, input, p1Flag, p2Flag, i, result, dynamicFieldPatterns,
                   rawValues, crunchFactor, found, arrayResults, arg, ret, stack>>

Next == ConvertStart \/ ProcessRow \/ ProcessDynamicArrayFields
          \/ InjectConstants \/ Clean

Spec == Init /\ [][Next]_vars

(***************************************************************************)
(* Convert as a function of its arguments: the outputs that one call on a  *)
(* cleared registry can return, one for every order in which the maps are  *)
(* ranged over.                                                            *)
(***************************************************************************)
RECURSIVE processRegularMappings(_, _, _, _, _)

\* the rows after row k, which found f and was handled with outcome h
mappingsHandled(h, f, rws, k, in) ==
    IF h.panic THEN [t |-> h.t, dyn |-> f.dyn, panic |-> TRUE]
    ELSE processRegularMappings(h.t, rws, k + 1, in, f.dyn)

mappingsFound(res, rws, k, in, f) ==
    mappingsHandled(handleRow(res, rws[k], f), f, rws, k, in)

\* the loop of processRegularMappings from row k on: [t, dyn, panic]
processRegularMappings(res, rws, k, in, dyn) ==
    IF k > Len(rws) THEN [t |-> res, dyn |-> dyn, panic |-> FALSE]
    ELSE mappingsFound(res, rws, k, in, findMatchingValues(rws[k], in, dyn))

\* the trees that adding the arrays e can give: {[t, panic]}
arraysAddedTo(res, e) ==
    IF e.panic THEN {[t |-> res, panic |-> TRUE]}
    ELSE {[t |-> addArrays(res, e.arrays, order), panic |-> FALSE] :
             order \in Perms(DOMAIN e.arrays)}

secondPassOver(res, in, dyn, grouped) ==
    IF Len(dyn) = 0 \/ grouped = {} THEN {[t |-> res, panic |-> FALSE]}
    ELSE UNION {arraysAddedTo(res, processEachArrayType(in, grouped, dyn, visit)) :
                   visit \in Perms(DOMAIN in)}

\* the trees that processDynamicArrayFields can leave: {[t, panic]}
processDynamicArrayFields(res, dyn, in) ==
    secondPassOver(res, in, dyn, groupArrayInputs(in, dyn))

constantInserted(r1, p2) ==
    IF r1.panic THEN r1
    ELSE insertNested(r1.t, p_acquisition_grf, castToBaseType(p2, T_string, ""))

\* the two constants cast and inserted: [t, panic]
constantsInserted(res, p1, p2) ==
    constantInserted(insertNested(res, p_instrument_cs,
                                  castToBaseType(p1, T_float64, "mm")), p2)

\* the outputs of the calls whose first pass ended with fp
outputsAfter(fp, in, p1, p2) ==
    IF fp.panic THEN {}
    ELSE {CleanMap(MapV(c.t)) :
             c \in {x \in {constantsInserted(sp.t, p1, p2) :
                             sp \in {y \in processDynamicArrayFields(fp.t, fp.dyn, in) :
                                       ~y.panic}} : ~x.panic}}

\* the documents that Convert can return for a table, an input document and
\* the two constants; none when the call panics
ConvertOutputs(rws, in, p1, p2) ==
    outputsAfter(processRegularMappings(<<>>, rws, 1, in, <<>>), in, p1, p2)

(***************************************************************************)
(* Several calls of Convert in one process, one after the other.  The      *)
(* registry is a package variable and is all that a call leaves behind;    *)
(* ret is <<TRUE>> once a call has left rules in it.                       *)
(***************************************************************************)
\* Convert returns: the document goes to the caller, the locals are gone
ConvertReturn ==
    /\ pc = "done"
    /\ pc' = "returned"
    /\ rows' = <<>>
    /\ input' = <<>>
    /\ p1Flag' = <<>>
    /\ p2Flag' = <<>>
    /\ i' = 1
    /\ result' = NilV
    /\ rawValues' = <<>>
    /\ crunchFactor' = <<>>
    /\ found' = FALSE
    /\ arrayResults' = <<>>
    /\ out' = NilV
    /\ ret' = IF Len(dynamicFieldPatterns) > 0 THEN <<TRUE>> ELSE ret
    /\ UNCHANGED <<dynamicFieldPatterns, arg, stack>>

\* the next call of Convert, with any table and input document
ConvertAgain ==
    /\ pc = "returned"
    /\ \E pool \in Pools : rows' \in TablesOf(pool) /\ input' \in DocsOf(pool)
    /\ pc' = "start"
    /\ UNCHANGED <<p1Flag, p2Flag, i, result, dynamicFieldPatterns, rawValues,
                   crunchFactor, found, arrayResults, out, arg, ret, stack>>

NextRepeat == Next \/ ConvertReturn \/ ConvertAgain

SpecRepeat == Init /\ [][NextRepeat]_vars

(***************************************************************************)
(* Two calls of Convert that run at the same time in one process.  The     *)
(* first call is the conversion above; arg holds the table, the input      *)
(* document, the position and the trees of the other call.  The registry   *)
(* is the one package variable: both calls clear it, append to it and hand *)
(* it to their second pass.  A step is one iteration of the first pass or  *)
(* one later stage; the calls read and write the registry with no          *)
(* synchronisation, so every order of their steps can happen.  The tables  *)
(* hold wildcard rules only; no step of them panics.                       *)
(***************************************************************************)
MaxConcRows == 1
MaxConcKeys == 1

ConcTables == UNION {[1..n -> WildcardRules] : n \in 0..MaxConcRows}

ConcDocs ==
    {[k \in ks |-> WildcardDoc[k]] :
        ks \in {x \in SUBSET DOMAIN WildcardDoc : Cardinality(x) <= MaxConcKeys}}

InitConc ==
    /\ rows \in ConcTables
    /\ input \in ConcDocs
    /\ p1Flag = <<>>
    /\ p2Flag = <<>>
    /\ pc = "start"
    /\ i = 1
    /\ result = NilV
    /\ dynamicFieldPatterns = <<>>
    /\ rawValues = <<>>
    /\ crunchFactor = <<>>
    /\ found = FALSE
    /\ arrayResults = <<>>
    /\ out = NilV
    /\ arg \in {[rows |-> t, input |-> d, pc |-> "start", i |-> 1,
                 result |-> NilV, out |-> NilV] : t \in ConcTables, d \in ConcDocs}
    /\ ret = <<>>
    /\ stack = <<>>

\* the other call: convertToHierarchicalJSON up to the first pass
OtherConvertStart ==
    /\ arg.pc = "start"
    /\ dynamicFieldPatterns' = <<>>
    /\ arg' = [arg EXCEPT !.result = EmptyMap, !.i = 1,
                          !.pc = IF Len(arg.rows) = 0 THEN "second" ELSE "first"]
    /\ UNCHANGED <<rows, input, p1Flag, p2Flag, pc, i, result, rawValues,
                   crunchFactor, found, arrayResults, out, ret, stack>>

OtherRowDone(f, h) ==
    /\ dynamicFieldPatterns' = f.dyn
    /\ arg' = [arg EXCEPT !.result = IF h.panic THEN @ ELSE MapV(h.t),
                          !.i = @ + 1,
                          !.pc = IF h.panic THEN "panic"
                                 ELSE IF arg.i = Len(arg.rows) THEN "second"
                                 ELSE "first"]

OtherRowFound(row, f) == OtherRowDone(f, handleRow(arg.result.m, row, f))

\* the other call: one iteration of the loop of processRegularMappings
OtherProcessRow ==
    /\ arg.pc = "first"
    /\ arg.i <= Len(arg.rows)
    /\ OtherRowFound(arg.rows[arg.i],
                     findMatchingValues(arg.rows[arg.i], arg.input, dynamicFieldPatterns))
    /\ UNCHANGED <<rows, input, p1Flag, p2Flag, pc, i, result, rawValues,
                   crunchFactor, found, arrayResults, out, ret, stack>>

\* the other call: processDynamicArrayFields(result, dynamicFieldPatterns, input)
OtherProcessDynamicArrayFields ==
    /\ arg.pc = "second"
    /\ \E sp \in processDynamicArrayFields(arg.result.m, dynamicFieldPatterns, arg.input) :
          arg' = [arg EXCEPT !.result = IF sp.panic THEN @ ELSE MapV(sp.t),
                             !.pc = IF sp.panic THEN "panic" ELSE "inject"]
    /\ UNCHANGED <<rows, input, p1Flag, p2Flag, pc, i, result, dynamicFieldPatterns,
                   rawValues, crunchFactor, found, arrayResults, out, ret, stack>>

OtherInjected(c) ==
    arg' = [arg EXCEPT !.result = IF c.panic THEN @ ELSE MapV(c.t),
                       !.pc = IF c.panic THEN "panic" ELSE "clean"]

\* the other call: the two constants, both empty
OtherInjectConstants ==
    /\ arg.pc = "inject"
    /\ OtherInjected(constantsInserted(arg.result.m, <<>>, <<>>))
    /\ UNCHANGED <<rows, input, p1Flag, p2Flag, pc, i, result, dynamicFieldPatterns,
                   rawValues, crunchFactor, found, arrayResults, out, ret, stack>>

\* the other call: cleaned := CleanMap(out)
OtherClean ==
    /\ arg.pc = "clean"
    /\ arg' = [arg EXCEPT !.out = CleanMap(arg.result), !.pc = "done"]
    /\ UNCHANGED <<rows, input, p1Flag, p2Flag, pc, i, result, dynamicFieldPatterns,
                   rawValues, crunchFactor, found, arrayResults, out, ret, stack>>

NextConc ==
    \/ Next
    \/ OtherConvertStart \/ OtherProcessRow \/ OtherProcessDynamicArrayFields
    \/ OtherInjectConstants \/ OtherClean

SpecConc == InitConc /\ [][NextConc]_vars

(***************************************************************************)
(* findMatchingValues on its own: every rule over four patterns per tier   *)
(* and every document of the literal pool.                                 *)
(***************************************************************************)
MaxNames == 2

f_two == <<"2">>

FindPatterns == {<<>>, s_a, s_b, s_xy}

FindRows ==
    {Row(s_sx, p4, p2, p1, "", f_two, f_half, p3, T_String) :
        p1 \in FindPatterns, p2 \in FindPatterns,
        p3 \in FindPatterns, p4 \in FindPatterns}

Idle ==
    /\ rows = <<>>
    /\ input = <<>>
    /\ p1Flag = <<>>
    /\ p2Flag = <<>>
    /\ i = 1
    /\ result = NilV
    /\ dynamicFieldPatterns = <<>>
    /\ rawValues = <<>>
    /\ crunchFactor = <<>>
    /\ found = FALSE
    /\ arrayResults = <<>>
    /\ out = NilV
    /\ ret = <<>>
    /\ stack = <<>>

InitFind ==
    /\ Idle
    /\ pc = "find"
    /\ arg \in {[row |-> r, in |-> d] :
                   r \in FindRows, d \in DocsOf([doc |-> LiteralDoc])}

FindMatchingValues ==
    /\ pc = "find"
    /\ ret' = findMatchingValues(arg.row, arg.in, <<>>)
    /\ pc' = "found"
    /\ UNCHANGED <<rows, input, p1Flag, p2Flag, i, result, dynamicFieldPatterns,
                   rawValues, crunchFactor, found, arrayResults, out, arg, stack>>

NextFind == FindMatchingValues

SpecFind == InitFind /\ [][NextFind]_vars

\* a pattern resolves in a document when it is not empty and the document has
\* a key for it: the pattern itself, or one of the names of a ;-list
Resolves(pattern, in) ==
    /\ pattern # <<>>
    /\ IF Contains(pattern, SEMI)
       THEN \E k \in 1..Len(Split(pattern, SEMI)) :
               TrimSpace(Split(pattern, SEMI)[k]) \in DOMAIN in
       ELSE pattern \in DOMAIN in

\* the four tiers in the order of the claim
Tiers(row) ==
    << [pattern |-> row.OptionalsMDOC, factor |-> row.CrunchFromMDOC],
       [pattern |-> row.FromMDOC,      factor |-> row.CrunchFromMDOC],
       [pattern |-> row.OptionalsXML,  factor |-> row.CrunchFromXML],
       [pattern |-> row.FromXML,       factor |-> row.CrunchFromXML] >>

\* C1: findMatchingValues returns the values and the unit factor of the first
\* tier (optionals_mdoc, frommdoc, optionals_xml, fromxml) whose pattern is not
\* empty and resolves in the input; no lower tier contributes; found is false
\* only when no tier resolves.
C1_TierPriority ==
    pc = "found" =>
      LET t    == Tiers(arg.row)
          hits == {k \in 1..4 : Resolves(t[k].pattern, arg.in)}
      IN  IF hits = {} THEN ~ret.found
          ELSE LET k == CHOOSE h \in hits : \A g \in hits : h <= g
               IN  /\ ret.found
                   /\ ret.crunch = t[k].factor
                   /\ ret.values =
                        extractValuesFromInput(arg.row, arg.in, t[k].pattern, <<>>).values

\* a rule whose four tiers all resolve, with different values and factors
C1_Witness ==
    /\ pc = "found"
    /\ arg.row.OptionalsMDOC = s_b /\ arg.row.FromMDOC = s_a
    /\ arg.row.OptionalsXML = s_xy /\ arg.row.FromXML = s_a
    /\ DOMAIN arg.in = {s_a, s_b}
    /\ ret.found /\ ret.values = << <<"a", "b">> >> /\ ret.crunch = f_half

(***************************************************************************)
(* extractValuesFromInput on its own: ;-lists of at most MaxNames + 1      *)
(* names, documents whose keys may be empty or start with a blank.         *)
(***************************************************************************)
s_sb == <<" ", "b">>
s_sp == <<" ">>

ExtractNames == {s_a, s_b, s_sb, <<>>, s_sp}

ExtractPatterns ==
    UNION {{Join(q, SEMI) : q \in [1..n -> ExtractNames]} : n \in 2..(MaxNames + 1)}

ExtractDoc ==
    (s_a :> <<"1">>) @@ (s_b :> <<"3">>) @@ (s_sb :> <<"4">>) @@ (<<>> :> <<"9">>)

InitExtract ==
    /\ Idle
    /\ pc = "extract"
    /\ arg \in {[key |-> k, in |-> d] :
                   k \in ExtractPatterns, d \in DocsOf([doc |-> ExtractDoc])}

ExtractValuesFromInput ==
    /\ pc = "extract"
    /\ ret' = extractValuesFromInput(Row(s_sx, <<>>, arg.key, <<>>, "", <<>>, <<>>,
                                         <<>>, T_String),
                                     arg.in, arg.key, <<>>)
    /\ pc' = "extracted"
    /\ UNCHANGED <<rows, input, p1Flag, p2Flag, i, result, dynamicFieldPatterns,
                   rawValues, crunchFactor, found, arrayResults, out, arg, stack>>

NextExtract == ExtractValuesFromInput

SpecExtract == InitExtract /\ [][NextExtract]_vars

\* C7: for a ;-list of k names the result has exactly k entries, the i-th the
\* input value of the i-th name, trimmed of surrounding white space, when the
\* trimmed name is not empty and is an input key, and the empty string
\* otherwise; found is true iff one of the trimmed, non-empty names is a key.
C7_Alignment ==
    pc = "extracted" =>
      LET names == Split(arg.key, SEMI)
          nm(k) == TrimSpace(names[k])
          has(k) == nm(k) # <<>> /\ nm(k) \in DOMAIN arg.in
      IN  /\ Len(ret.values) = Len(names)
          /\ \A k \in 1..Len(names) :
                ret.values[k] = IF has(k) THEN arg.in[nm(k)] ELSE <<>>
          /\ ret.found <=> \E k \in 1..Len(names) : has(k)

\* C7 as stated, the names looked up as they are written in the pattern
C7_AlignmentUntrimmed ==
    pc = "extracted" =>
      LET names == Split(arg.key, SEMI)
          has(k) == names[k] # <<>> /\ names[k] \in DOMAIN arg.in
      IN  /\ Len(ret.values) = Len(names)
          /\ \A k \in 1..Len(names) :
                ret.values[k] = IF has(k) THEN arg.in[names[k]] ELSE <<>>
          /\ ret.found <=> \E k \in 1..Len(names) : names[k] \in DOMAIN arg.in

\* the pattern "a; b" against {a, b}: the second entry is the value of b
C7_Witness ==
    /\ pc = "extracted"
    /\ arg.key = <<"a", ";", " ", "b">>
    /\ DOMAIN arg.in = {s_a, s_b}
    /\ ret.values = << <<"1">>, <<"3">> >>
    /\ ret.found

(***************************************************************************)
(* castToBaseType on its own.                                              *)
(***************************************************************************)
CastValues ==
    { <<"1", "2">>, <<"a", "b", "c">>, <<>>, <<"-", "3">>, <<"1", ".", "5">>,
      <<"7", "x">>, <<" ", "4">>, <<"t", "r", "u", "e">>, <<"T", "R", "U", "E">>,
      <<"T", "r", "u", "e">>, <<"+", "5">>, <<".", "5">>, <<"1", "e", "2">>,
      <<"t", "r", "u", "e", " ">> }

T_INT == <<"I", "N", "T">>
T_Float == <<"F", "l", "o", "a", "t">>
T_Bool == <<"B", "o", "o", "l">>
T_BOOL == <<"B", "O", "O", "L">>

CastTypes ==
    { T_int, T_Int, T_INT, T_float, T_Float, T_float64, T_Float64, T_bool, T_Bool,
      T_BOOL, T_string, T_String, T_text, <<>> }

InitCast ==
    /\ Idle
    /\ pc = "cast"
    /\ arg \in {[value |-> v, t |-> t, unit |-> u] :
                   v \in CastValues, t \in CastTypes, u \in {"", "mm"}}

CastToBaseType ==
    /\ pc = "cast"
    /\ ret' = castToBaseType(arg.value, arg.t, arg.unit)
    /\ pc' = "casted"
    /\ UNCHANGED <<rows, input, p1Flag, p2Flag, i, result, dynamicFieldPatterns,
                   rawValues, crunchFactor, found, arrayResults, out, arg, stack>>

NextCast == CastToBaseType

SpecCast == InitCast /\ [][NextCast]_vars

\* the leading number of each text of CastValues, as an integer and as a
\* decimal M / 10^E; 0 when the text does not start with a number
LeadingInt(v) ==
    CASE v = <<"1", "2">> -> 12
      [] v = <<"-", "3">> -> 0 - 3
      [] v = <<"1", ".", "5">> -> 1
      [] v = <<"7", "x">> -> 7
      [] v = <<" ", "4">> -> 4
      [] v = <<"+", "5">> -> 5
      [] v = <<"1", "e", "2">> -> 1
      [] OTHER -> 0

LeadingFloat(v) ==
    CASE v = <<"1", "2">> -> [M |-> 12, E |-> 0]
      [] v = <<"-", "3">> -> [M |-> 0 - 3, E |-> 0]
      [] v = <<"1", ".", "5">> -> [M |-> 15, E |-> 1]
      [] v = <<"7", "x">> -> [M |-> 7, E |-> 0]
      [] v = <<" ", "4">> -> [M |-> 4, E |-> 0]
      [] v = <<"+", "5">> -> [M |-> 5, E |-> 0]
      [] v = <<".", "5">> -> [M |-> 5, E |-> 1]
      [] v = <<"1", "e", "2">> -> [M |-> 100, E |-> 0]
      [] OTHER -> [M |-> 0, E |-> 0]

IntegerTypes == {T_int, T_Int, T_INT}
FloatTypes == {T_float, T_Float, T_float64, T_Float64}
BooleanTypes == {T_bool, T_Bool, T_BOOL}
TextTypes == {T_string, T_String}

\* C9: for the four declared types, matched without regard to case, the cast
\* yields a set value: the leading number (0 when the text is not numeric) for
\* integer and floating point, true iff the text is "true" in any case for
\* boolean, the text itself for text; never an unset value.
C9_CastSemantics ==
    pc = "casted" =>
      /\ arg.t \in IntegerTypes =>
           ret.kind = "Int" /\ ret.HasSet /\ ret.IntVal = LeadingInt(arg.value)
      /\ arg.t \in FloatTypes =>
           /\ ret.kind = "Float64" /\ ret.HasSet
           /\ [M |-> ret.FloatM, E |-> ret.FloatE] = LeadingFloat(arg.value)
      /\ arg.t \in BooleanTypes =>
           /\ ret.kind = "Bool" /\ ret.HasSet
           /\ ret.BoolVal <=> arg.value \in { <<"t", "r", "u", "e">>,
                                              <<"T", "R", "U", "E">>,
                                              <<"T", "r", "u", "e">> }
      /\ arg.t \in TextTypes =>
           ret.kind = "String" /\ ret.HasSet /\ ret.StrVal = arg.value

\* "abc" cast to Int: set, with the number 0
C9_Witness ==
    /\ pc = "casted"
    /\ arg.value = <<"a", "b", "c">> /\ arg.t = T_Int
    /\ ret.HasSet /\ ret.IntVal = 0

(***************************************************************************)
(* processValue on its own: unit conversion and cast of one raw value.     *)
(* The numbers and their products are exact in float64.                    *)
(***************************************************************************)
CrunchValues ==
    { <<"1", "0">>, <<"3">>, <<"1", ".", "5">>, <<"-", "2">>, <<"0", ".", "2", "5">>,
      <<"1", "e", "1">>, <<"a", "b">>, <<>>, <<" ", "1">>, <<"1", "x">> }

CrunchFactors ==
    { <<>>, f_half, f_two, <<"-", "4">>, <<"a", "b">>, <<"2", "x">> }

InitCrunch ==
    /\ Idle
    /\ pc = "crunch"
    /\ arg \in {[rawValue |-> v, crunchFactor |-> c,
                 row |-> Row(s_sx, <<>>, s_a, <<>>, "mm", <<>>, c, <<>>, t)] :
                   v \in CrunchValues, c \in CrunchFactors,
                   t \in {T_Float64, T_Int, T_String}}

ProcessValue ==
    /\ pc = "crunch"
    /\ ret' = [processedValue |-> applyUnitCrunch(arg.crunchFactor, arg.rawValue, arg.row),
               value |-> processValue(arg.rawValue, arg.crunchFactor, arg.row)]
    /\ pc' = "crunched"
    /\ UNCHANGED <<rows, input, p1Flag, p2Flag, i, result, dynamicFieldPatterns,
                   rawValues, crunchFactor, found, arrayResults, out, arg, stack>>

NextCrunch == ProcessValue

SpecCrunch == InitCrunch /\ [][NextCrunch]_vars

\* the number each numeric text of the pools stands for, as M / 10^E
NumberOf(v) ==
    CASE v = <<"1", "0">> -> [M |-> 10, E |-> 0]
      [] v = <<"3">> -> [M |-> 3, E |-> 0]
      [] v = <<"1", ".", "5">> -> [M |-> 15, E |-> 1]
      [] v = <<"-", "2">> -> [M |-> 0 - 2, E |-> 0]
      [] v = <<"0", ".", "2", "5">> -> [M |-> 25, E |-> 2]
      [] v = <<"1", "e", "1">> -> [M |-> 10, E |-> 0]
      [] v = <<"0", ".", "5">> -> [M |-> 5, E |-> 1]
      [] v = <<"2">> -> [M |-> 2, E |-> 0]
      [] v = <<"-", "4">> -> [M |-> 0 - 4, E |-> 0]
      [] OTHER -> [M |-> 0, E |-> 0]

NumericTexts ==
    { <<"1", "0">>, <<"3">>, <<"1", ".", "5">>, <<"-", "2">>, <<"0", ".", "2", "5">>,
      <<"1", "e", "1">>, <<"0", ".", "5">>, <<"2">>, <<"-", "4">> }

\* text is [-]digits.digits with exactly 16 digits after the point
IsFixedPoint16(text) ==
    LET body == IF Len(text) > 0 /\ text[1] = "-" THEN Tail(text) ELSE text
        p    == IndexOf(body, DOT)
    IN  /\ p >= 2
        /\ Len(body) = p + 16
        /\ \A k \in 1..Len(body) : k # p => IsDigit(body[k])

\* the number a fixed-point text stands for, as M / 10^E with M not
\* divisible by 10 unless E = 0
FixedPointNumber(text) ==
    LET neg  == Len(text) > 0 /\ text[1] = "-"
        body == IF neg THEN Tail(text) ELSE text
        p    == IndexOf(body, DOT)
        frac == StripZerosRight(SubStr(body, p + 1, Len(body)))
        n    == DigitsVal(SubStr(body, 1, p - 1)) * Pow10(Len(frac)) + DigitsVal(frac)
    IN  [M |-> IF neg THEN 0 - n ELSE n, E |-> Len(frac)]

\* the product of two numbers M / 10^E, in the same form
Product(a, b) == Normalise(a.M * b.M, a.E + b.E)

\* C12: with a non-empty factor and a numeric raw value the converted text is
\* the product raw * factor as a fixed-point decimal with exactly 16
\* fractional digits and no exponent, an unparseable factor counting as 0;
\* with an empty factor the raw value goes to the cast unchanged.
C12_UnitConversion ==
    pc = "crunched" =>
      /\ (arg.crunchFactor # <<>> /\ arg.rawValue \in NumericTexts) =>
           /\ IsFixedPoint16(ret.processedValue)
           /\ FixedPointNumber(ret.processedValue) =
                Product(NumberOf(arg.rawValue), NumberOf(arg.crunchFactor))
           /\ ret.value = castToBaseType(ret.processedValue, arg.row.Type, arg.row.Units)
      /\ arg.crunchFactor = <<>> =>
           /\ ret.processedValue = arg.rawValue
           /\ ret.value = castToBaseType(arg.rawValue, arg.row.Type, arg.row.Units)

\* raw "10" with factor "0.5" gives "5.0000000000000000"
C12_Witness ==
    /\ pc = "crunched"
    /\ arg.rawValue = <<"1", "0">> /\ arg.crunchFactor = f_half
    /\ ret.processedValue = <<"5", ".">> \o Zeros(16)

\* a numeric raw value with an unparseable factor gives "0.0000000000000000"
C12_WitnessBadFactor ==
    /\ pc = "crunched"
    /\ arg.rawValue = <<"3">> /\ arg.crunchFactor = <<"a", "b">>
    /\ ret.processedValue = <<"0", ".">> \o Zeros(16)

(***************************************************************************)
(* insertNested on its own: small trees, paths of one to three keys.       *)
(***************************************************************************)
s_s == <<"s">>
s_z == <<"z">>

InsertObjs ==
    { <<>>,
      s_s :> IntSet(5, "mm"),
      s_s :> NilV,
      s_s :> SliceV(<<EmptyMap>>),
      s_s :> EmptyMap,
      s_s :> MapV(s_x :> StringSet(s_a)),
      s_s :> MapV(s_x :> NilV),
      s_s :> MapV(s_x :> SliceV(<<>>)),
      s_s :> MapV((s_x :> StringSet(s_a)) @@ (s_y :> IntSet(5, "mm"))),
      (s_s :> MapV(s_x :> MapV(s_z :> StringSet(s_a)))) @@ (s_a :> IntSet(5, "mm")),
      (s_s :> MapV(s_y :> StringSet(s_a))) @@ (s_a :> MapV(s_x :> StringSet(s_b))) }

InsertPaths ==
    { <<s_s>>, <<s_s, s_x>>, <<s_s, s_x, s_z>>, <<s_s, s_z, s_x>>, <<s_a, s_x>> }

InsertVals == { IntSet(7, ""), NilV, EmptyMap }

InitInsert ==
    /\ Idle
    /\ pc = "insert"
    /\ arg \in {[obj |-> o, path |-> p, val |-> v] :
                   o \in InsertObjs, p \in InsertPaths, v \in InsertVals}

InsertNested ==
    /\ pc = "insert"
    /\ ret' = insertNested(arg.obj, arg.path, arg.val)
    /\ pc' = "inserted"
    /\ UNCHANGED <<rows, input, p1Flag, p2Flag, i, result, dynamicFieldPatterns,
                   rawValues, crunchFactor, found, arrayResults, out, arg, stack>>

NextInsert == InsertNested

SpecInsert == InitInsert /\ [][NextInsert]_vars

RECURSIVE Blocked(_, _)
\* an intermediate segment of path is occupied in f by a value that is not a
\* container
Blocked(f, path) ==
    /\ Len(path) >= 2
    /\ path[1] \in DOMAIN f
    /\ \/ f[path[1]].kind # "map"
       \/ Blocked(f[path[1]].m, Tail(path))

\* C13: an insert at a path with an intermediate segment occupied by a value
\* that is not a container fails with a reportable error: it neither crashes
\* the conversion nor changes the tree.
C13_StructuralError ==
    (pc = "inserted" /\ Blocked(arg.obj, arg.path)) =>
      ~ret.panic /\ ret.t = arg.obj

RECURSIVE Inserted(_, _, _, _)
\* new is old with val at path: a container at every intermediate key, every
\* key off the path as it was
Inserted(old, new, path, val) ==
    /\ DOMAIN new = DOMAIN old \cup {path[1]}
    /\ \A k \in DOMAIN old \ {path[1]} : new[k] = old[k]
    /\ IF Len(path) = 1 THEN new[path[1]] = val
       ELSE /\ new[path[1]].kind = "map"
            /\ Inserted(IF path[1] \in DOMAIN old THEN old[path[1]].m ELSE <<>>,
                        new[path[1]].m, Tail(path), val)

\* C18: on a path whose intermediate segments are absent or containers,
\* insertNested makes a container for every absent intermediate segment,
\* stores the value at the last segment over any prior value, and leaves
\* every key that is not on the path as it was.
C18_InsertFrame ==
    (pc = "inserted" /\ ~Blocked(arg.obj, arg.path)) =>
      ~ret.panic /\ Inserted(arg.obj, ret.t, arg.path, arg.val)

\* s.z.x into {s: {y: ..}, a: {x: ..}}: z is made, s.y and a.x stay
C18_Witness ==
    /\ pc = "inserted"
    /\ arg.obj = (s_s :> MapV(s_y :> StringSet(s_a))) @@ (s_a :> MapV(s_x :> StringSet(s_b)))
    /\ arg.path = <<s_s, s_z, s_x>>
    /\ arg.val = IntSet(7, "")
    /\ ret.t[s_s].m[s_z].m[s_x] = IntSet(7, "")
    /\ ret.t[s_s].m[s_y] = StringSet(s_a)
    /\ ret.t[s_a] = arg.obj[s_a]

(***************************************************************************)
(* The [N] matcher on its own: patterns with one or two [N], with regex    *)
(* metacharacters and without [N], against keys that fit and that do not.  *)
(***************************************************************************)
MatchPatterns ==
    { <<"p", "[", "N", "]", ".", "n">>,
      <<"p", "[", "N", "]">>,
      <<"[", "N", "]">>,
      <<"a", "+", "[", "N", "]">>,
      <<"a", ".", "[", "N", "]">>,
      <<"p", "[", "N", "]", "n">>,
      <<"[", "N", "]", "-", "[", "N", "]">>,
      <<"p", "[", "N">>,
      <<"(", "p", ")", "[", "N", "]">> }

MatchKeys ==
    { <<"p", "1", ".", "n">>,
      <<"p", ".", "n">>,
      <<"p", "1", ".", "2", ".", "n">>,
      <<"p", "a", "b", "n", "n">>,
      <<"p", "n">>,
      <<"a", "+", "1">>,
      <<"a", "a", "1">>,
      <<"a", ".", "1">>,
      <<"a", "x", "1">>,
      <<"1", "-", "2">>,
      <<"1", "-", "2", "-", "3">>,
      <<"p", "1">>,
      <<>>,
      <<"P", "1", ".", "n">>,
      <<"p", "1", ".", "n", "x">>,
      <<"x", "p", "1", ".", "n">>,
      <<"(", "p", ")", "7">>,
      <<"p", "7">>,
      <<"p", "1", "0", ".", "n">>,
      <<"-">> }

InitMatch ==
    /\ Idle
    /\ pc = "match"
    /\ arg \in {[fieldPattern |-> p, inputKey |-> k] :
                   p \in MatchPatterns, k \in MatchKeys}

FindStringSubmatch ==
    /\ pc = "match"
    /\ ret' = findStringSubmatch(arg.fieldPattern, arg.inputKey)
    /\ pc' = "matched"
    /\ UNCHANGED <<rows, input, p1Flag, p2Flag, i, result, dynamicFieldPatterns,
                   rawValues, crunchFactor, found, arrayResults, out, arg, stack>>

NextMatch == FindStringSubmatch

SpecMatch == InitMatch /\ [][NextMatch]_vars

RECURSIVE Fits(_, _)
\* key is the literal parts with a non-empty string without "." between each
\* two of them
Fits(parts, key) ==
    IF Len(parts) = 1 THEN key = parts[1]
    ELSE /\ HasPrefixAt(key, 1, parts[1])
         /\ \E n \in 1..(Len(key) - Len(parts[1])) :
               /\ ~Contains(SubStr(key, Len(parts[1]) + 1, Len(parts[1]) + n), DOT)
               /\ Fits(Tail(parts), SubStr(key, Len(parts[1]) + n + 1, Len(key)))

\* the strings that can replace the first [N] of pattern to give key
FirstReplacements(pattern, key) ==
    LET parts == Split(pattern, WILDCARD)
    IN  IF Len(parts) < 2 THEN {}
        ELSE {SubStr(key, Len(parts[1]) + 1, Len(parts[1]) + n) :
                 n \in {x \in 1..(Len(key) - Len(parts[1])) :
                    /\ HasPrefixAt(key, 1, parts[1])
                    /\ ~Contains(SubStr(key, Len(parts[1]) + 1, Len(parts[1]) + x), DOT)
                    /\ Fits(Tail(parts),
                            SubStr(key, Len(parts[1]) + x + 1, Len(key)))}}

C21_WitnessNoMatch ==
    /\ pc = "matched"
    /\ arg.fieldPattern = <<"a", "+", "[", "N", "]">> /\ arg.inputKey = <<"a", "a", "1">>
    /\ ~ret.ok

(***************************************************************************)
(* schema2csv: FlattenSchema.  A JSON value is an object (o: its members), *)
(* an array (a), a string (str) or null.  The recursion of flattenDef and  *)
(* flattenProperty is kept as the stack of the calls that are still to be  *)
(* made, each with the depth at which it runs on the goroutine stack; the  *)
(* rows are appended in the order of the recursion.  A goroutine stack     *)
(* holds StackLimit calls: a deeper call ends the process with the fatal   *)
(* error "stack overflow".                                                 *)
(***************************************************************************)
StackLimit == 8

JObj(o) == [kind |-> "object", o |-> o, a |-> <<>>, str |-> <<>>]
JArr(a) == [kind |-> "array", o |-> <<>>, a |-> a, str |-> <<>>]
JStr(str) == [kind |-> "string", o |-> <<>>, a |-> <<>>, str |-> str]
JNull == [kind |-> "null", o |-> <<>>, a |-> <<>>, str |-> <<>>]

k_defs == <<"$", "d", "e", "f", "s">>
k_properties == <<"p", "r", "o", "p", "e", "r", "t", "i", "e", "s">>
k_ref == <<"$", "r", "e", "f">>
k_anyOf == <<"a", "n", "y", "O", "f">>
k_type == <<"t", "y", "p", "e">>
k_items == <<"i", "t", "e", "m", "s">>
refPrefix == <<"#", "/", "$", "d", "e", "f", "s", "/">>
t_integer == <<"i", "n", "t", "e", "g", "e", "r">>
t_number == <<"n", "u", "m", "b", "e", "r">>
t_boolean == <<"b", "o", "o", "l", "e", "a", "n">>
t_array == <<"a", "r", "r", "a", "y">>
t_null == <<"n", "u", "l", "l">>

typeMap ==
    (T_string :> T_String) @@ (t_integer :> T_Int) @@ (t_number :> T_Float64)
      @@ (t_boolean :> T_Bool)

\* v[key] of an object v; null when the key is absent
Member(v, key) == IF key \in DOMAIN v.o THEN v.o[key] ELSE JNull

\* a call of flattenDef, a call of flattenProperty, a row to append
DefCall(prefix, def, parentPath, depth) ==
    [fn |-> "flattenDef", prefix |-> prefix, v |-> def, path |-> parentPath,
     type |-> <<>>, depth |-> depth]

PropCall(path, prop, depth) ==
    [fn |-> "flattenProperty", prefix |-> <<>>, v |-> prop, path |-> path,
     type |-> <<>>, depth |-> depth]

RowOf(path, mapped) ==
    [fn |-> "row", prefix |-> <<>>, v |-> JNull, path |-> path,
     type |-> mapped, depth |-> 0]

RECURSIVE defCalls(_, _)
\* the loop of FlattenSchema over defsRaw in the order of the range
defCalls(defsRaw, order) ==
    IF Len(order) = 0 THEN <<>>
    ELSE (IF defsRaw.o[order[1]].kind = "object"
          THEN <<DefCall(order[1], defsRaw.o[order[1]], <<>>, 1)>>
          ELSE <<>>) \o defCalls(defsRaw, Tail(order))

RECURSIVE propCalls(_, _, _, _, _)
\* the loop of flattenDef over propsRaw in the order of the range
propCalls(propsRaw, order, prefix, parentPath, depth) ==
    IF Len(order) = 0 THEN <<>>
    ELSE (IF propsRaw.o[order[1]].kind = "object"
          THEN <<PropCall((IF parentPath # <<>> THEN parentPath ELSE prefix)
                             \o DOT \o order[1],
                          propsRaw.o[order[1]], depth + 1)>>
          ELSE <<>>) \o propCalls(propsRaw, Tail(order), prefix, parentPath, depth)

\* the calls that a call of flattenDef makes, for an order of the range
flattenDef(call, order) ==
    propCalls(Member(call.v, k_properties), order, call.prefix, call.path, call.depth)

RECURSIVE anyOfCalls(_, _, _)
anyOfCalls(path, anyOf, depth) ==
    IF Len(anyOf) = 0 THEN <<>>
    ELSE (IF anyOf[1].kind = "object"
          THEN <<PropCall(path, anyOf[1], depth + 1)>>
          ELSE <<>>) \o anyOfCalls(path, Tail(anyOf), depth)

\* one type name of a property: the items of an array, or a row
typeCalls(path, prop, tt, depth) ==
    IF tt = t_array
    THEN IF Member(prop, k_items).kind = "object"
         THEN <<PropCall(path \o WILDCARD, Member(prop, k_items), depth + 1)>>
         ELSE <<>>
    ELSE IF tt \in DOMAIN typeMap THEN <<RowOf(path, typeMap[tt])>>
    ELSE <<>>

RECURSIVE typeListCalls(_, _, _, _)
typeListCalls(path, prop, tt, depth) ==
    IF Len(tt) = 0 THEN <<>>
    ELSE (IF tt[1].kind = "string"
          THEN typeCalls(path, prop, tt[1].str, depth)
          ELSE <<>>) \o typeListCalls(path, prop, Tail(tt), depth)

\* the calls and rows of a call of flattenProperty, in their order
flattenProperty(call, defs) ==
    LET prop == call.v
        ref  == Member(prop, k_ref)
        any  == Member(prop, k_anyOf)
        t    == Member(prop, k_type)
    IN  IF ref.kind = "string"
        THEN LET refName == TrimPrefix(ref.str, refPrefix)
             IN  IF Member(defs, refName).kind = "object"
                 THEN <<DefCall(refName, Member(defs, refName), call.path,
                                call.depth + 1)>>
                 ELSE <<>>
        ELSE IF any.kind = "array" THEN anyOfCalls(call.path, any.a, call.depth)
        ELSE IF t.kind = "string" THEN typeCalls(call.path, prop, t.str, call.depth)
        ELSE IF t.kind = "array" THEN typeListCalls(call.path, prop, t.a, call.depth)
        ELSE <<>>

n_A == <<"A">>
n_B == <<"B">>
n_x == <<"x">>
n_y == <<"y">>
n_z == <<"z">>
ref_A == refPrefix \o n_A
ref_B == refPrefix \o n_B
ref_Z == refPrefix \o n_z

Prim(t) == JObj(k_type :> JStr(t))
Ref(r) == JObj(k_ref :> JStr(r))
ArrayOf(items) == JObj((k_type :> JStr(t_array)) @@ (k_items :> items))
Def(props) == JObj(k_properties :> JObj(props))
SchemaOf(defs) == JObj(k_defs :> JObj(defs))

\* schema documents: without $defs; one definition of primitives, with a
\* member that is no object; definitions that refer to each other without a
\* cycle, with anyOf, an array and a list of types; a definition that refers
\* to itself; two definitions that refer to each other through array items; a
\* reference to a definition that is not there
Schemas ==
    { JObj(<<>>),
      SchemaOf((n_A :> Def((n_x :> Prim(T_string)) @@ (n_y :> JStr(n_y))))
                 @@ (n_B :> JStr(n_x))),
      SchemaOf((n_A :> Def((n_x :> Prim(t_integer)) @@ (n_y :> Ref(ref_B))))
                 @@ (n_B :> Def((n_x :> JObj(k_anyOf :>
                                     JArr(<<Prim(t_number), Prim(t_null)>>)))
                                 @@ (n_z :> JObj((k_type :>
                                       JArr(<<JStr(t_boolean), JStr(t_array)>>))
                                       @@ (k_items :> Prim(T_string))))))),
      SchemaOf(n_A :> Def((n_x :> Prim(T_string)) @@ (n_y :> Ref(ref_A)))),
      SchemaOf((n_A :> Def(n_x :> ArrayOf(Ref(ref_B))))
                 @@ (n_B :> Def(n_y :> Ref(ref_A)))),
      SchemaOf(n_A :> Def((n_x :> Ref(ref_Z)) @@ (n_y :> ArrayOf(Prim(t_number))))) }

InitFlatten ==
    /\ Idle
    /\ pc = "flatten"
    /\ arg \in Schemas

\* FlattenSchema up to its loop: the calls of flattenDef it will make
FlattenSchema ==
    /\ pc = "flatten"
    /\ ret' = <<>>
    /\ LET defsRaw == Member(arg, k_defs)
       IN  IF defsRaw.kind # "object"
           THEN stack' = <<>> /\ pc' = "returned"
           ELSE /\ \E order \in Perms(DOMAIN defsRaw.o) :
                     stack' = defCalls(defsRaw, order)
                /\ pc' = "flattening"
    /\ UNCHANGED <<rows, input, p1Flag, p2Flag, i, result, dynamicFieldPatterns,
                   rawValues, crunchFactor, found, arrayResults, out, arg>>

\* the next call is a call of flattenDef
FlattenDef ==
    /\ pc = "flattening"
    /\ stack # <<>>
    /\ stack[1].fn = "flattenDef"
    /\ stack[1].depth <= StackLimit
    /\ \E order \in Perms(DOMAIN Member(stack[1].v, k_properties).o) :
          stack' = flattenDef(stack[1], order) \o Tail(stack)
    /\ UNCHANGED <<rows, input, p1Flag, p2Flag, pc, i, result, dynamicFieldPatterns,
                   rawValues, crunchFactor, found, arrayResults, out, arg, ret>>

\* the next call is a call of flattenProperty
FlattenProperty ==
    /\ pc = "flattening"
    /\ stack # <<>>
    /\ stack[1].fn = "flattenProperty"
    /\ stack[1].depth <= StackLimit
    /\ stack' = flattenProperty(stack[1], Member(arg, k_defs)) \o Tail(stack)
    /\ UNCHANGED <<rows, input, p1Flag, p2Flag, pc, i, result, dynamicFieldPatterns,
                   rawValues, crunchFactor, found, arrayResults, out, arg, ret>>

\* rows = append(rows, [2]string{path, mapped})
AppendRow ==
    /\ pc = "flattening"
    /\ stack # <<>>
    /\ stack[1].fn = "row"
    /\ ret' = Append(ret, <<stack[1].path, stack[1].type>>)
    /\ stack' = Tail(stack)
    /\ UNCHANGED <<rows, input, p1Flag, p2Flag, pc, i, result, dynamicFieldPatterns,
                   rawValues, crunchFactor, found, arrayResults, out, arg>>

\* a call deeper than the goroutine stack holds: the runtime ends the process
StackOverflow ==
    /\ pc = "flattening"
    /\ stack # <<>>
    /\ stack[1].fn # "row"
    /\ stack[1].depth > StackLimit
    /\ pc' = "overflow"
    /\ UNCHANGED <<rows, input, p1Flag, p2Flag, i, result, dynamicFieldPatterns,
                   rawValues, crunchFactor, found, arrayResults, out, arg, ret,
                   stack>>

\* every call has returned: FlattenSchema returns rows
FlattenReturn ==
    /\ pc = "flattening"
    /\ stack = <<>>
    /\ pc' = "returned"
    /\ UNCHANGED <<rows, input, p1Flag, p2Flag, i, result, dynamicFieldPatterns,
                   rawValues, crunchFactor, found, arrayResults, out, arg, ret,
                   stack>>

NextFlatten ==
    FlattenSchema \/ FlattenDef \/ FlattenProperty \/ AppendRow
      \/ StackOverflow \/ FlattenReturn

\* a call that can take a step takes it
SpecFlatten == InitFlatten /\ [][NextFlatten]_vars /\ WF_vars(NextFlatten)

\* C28: FlattenSchema terminates for every finite schema document, also when
\* the definitions refer to each other or to themselves through $ref or
\* through the items of an array: every call returns its rows.
C28_Terminates == <>(pc = "returned")

(***************************************************************************)
(* CleanMap on its own: every tree of at most MaxNodes nodes, pruned once  *)
(* and then once more.                                                     *)
(***************************************************************************)
UnsetInt == Node("Int")

OtherLeaf == [Node("other") EXCEPT !.StrVal = s_c]

TreeLeaves ==
    { IntSet(5, "mm"), StringSet(s_a), UnsetInt, NilV, OtherLeaf, EmptyMap,
      SliceV(<<>>) }

RECURSIVE TreesOfSize(_)
RECURSIVE SeqsOfSize(_)

\* the sequences of trees with n nodes in all
SeqsOfSize(n) ==
    IF n = 0 THEN {<<>>}
    ELSE UNION {{<<c>> \o q : c \in TreesOfSize(j), q \in SeqsOfSize(n - j)} :
                   j \in 1..n}

\* the trees with exactly n nodes, containers keyed by a and b
TreesOfSize(n) ==
    IF n = 1 THEN TreeLeaves
    ELSE {MapV(k :> c) : k \in {s_a, s_b}, c \in TreesOfSize(n - 1)}
         \cup UNION {{MapV((s_a :> c1) @@ (s_b :> c2)) :
                         c1 \in TreesOfSize(j), c2 \in TreesOfSize(n - 1 - j)} :
                        j \in 1..(n - 2)}
         \cup {SliceV(q) : q \in SeqsOfSize(n - 1)}

Trees == UNION {TreesOfSize(n) : n \in 1..MaxNodes}

InitPrune ==
    /\ Idle
    /\ pc = "prune"
    /\ arg \in Trees

\* cleaned := CleanMap(t)
PruneOnce ==
    /\ pc = "prune"
    /\ ret' = <<CleanMap(arg)>>
    /\ pc' = "pruned"
    /\ UNCHANGED <<rows, input, p1Flag, p2Flag, i, result, dynamicFieldPatterns,
                   rawValues, crunchFactor, found, arrayResults, out, arg, stack>>

\* CleanMap(cleaned)
PruneAgain ==
    /\ pc = "pruned"
    /\ ret' = Append(ret, CleanMap(ret[1]))
    /\ pc' = "pruned2"
    /\ UNCHANGED <<rows, input, p1Flag, p2Flag, i, result, dynamicFieldPatterns,
                   rawValues, crunchFactor, found, arrayResults, out, arg, stack>>

NextPrune == PruneOnce \/ PruneAgain

SpecPrune == InitPrune /\ [][NextPrune]_vars

\* C3: CleanMap(CleanMap(t)) = CleanMap(t), also when CleanMap(t) is nil
C3_Idempotent == pc = "pruned2" => ret[2] = ret[1]

\* a tree that pruning changes without removing it: {a: [unset, 5]}
C3_Witness ==
    /\ pc = "pruned2"
    /\ arg = MapV(s_a :> SliceV(<<UnsetInt, IntSet(5, "mm")>>))
    /\ ret[1] = MapV(s_a :> SliceV(<<IntSet(5, "mm")>>))
    /\ ret[2] = ret[1]

\* a tree whose pruning is nil: {a: {b: unset}}
C3_WitnessNil ==
    /\ pc = "pruned2"
    /\ arg = MapV(s_a :> MapV(s_b :> UnsetInt))
    /\ ret[1] = NilV /\ ret[2] = NilV

RECURSIVE WellPruned(_)
\* no empty container, no empty sequence, no unset typed leaf, no nil child
WellPruned(t) ==
    CASE t.kind = "map" ->
            DOMAIN t.m # {} /\ \A k \in DOMAIN t.m : WellPruned(t.m[k])
      [] t.kind = "slice" ->
            Len(t.s) > 0 /\ \A k \in 1..Len(t.s) : WellPruned(t.s[k])
      [] t.kind \in TypedKinds -> t.HasSet
      [] t.kind = "nil" -> FALSE
      [] OTHER -> TRUE

RECURSIVE SetLeaves(_, _)
RECURSIVE SetLeavesOfSeq(_, _)
RECURSIVE SetLeavesOfKeys(_, _, _)

\* the set typed leaves below t in order, each with the container keys that
\* lead to it (path; a step into a sequence is written ";")
SetLeaves(t, path) ==
    CASE t.kind = "map" -> SetLeavesOfKeys(t.m, sortStrings(DOMAIN t.m), path)
      [] t.kind = "slice" -> SetLeavesOfSeq(t.s, Append(path, SEMI))
      [] t.kind \in TypedKinds /\ t.HasSet -> << <<path, t>> >>
      [] OTHER -> <<>>

SetLeavesOfSeq(q, path) ==
    IF Len(q) = 0 THEN <<>>
    ELSE SetLeaves(q[1], path) \o SetLeavesOfSeq(Tail(q), path)

SetLeavesOfKeys(f, keys, path) ==
    IF Len(keys) = 0 THEN <<>>
    ELSE SetLeaves(f[keys[1]], Append(path, keys[1]))
           \o SetLeavesOfKeys(f, Tail(keys), path)

\* C4: CleanMap(t) is nil or a tree without empty containers, empty sequences,
\* unset typed leaves and nil children; the set leaves of t are all kept, at
\* the same container keys, those of a sequence in the same relative order.
C4_WellFormed ==
    pc = "pruned" =>
      /\ ret[1].kind = "nil" \/ WellPruned(ret[1])
      /\ SetLeaves(ret[1], <<>>) = SetLeaves(arg, <<>>)

\* [5, unset, "a"]: two set leaves in a sequence, kept in order
C4_Witness ==
    /\ pc = "pruned"
    /\ arg = SliceV(<<IntSet(5, "mm"), UnsetInt, StringSet(s_a)>>)
    /\ ret[1] = SliceV(<<IntSet(5, "mm"), StringSet(s_a)>>)

(***************************************************************************)
(* Properties of the conversion (Spec).                                    *)
(***************************************************************************)
RECURSIVE Lookup(_, _)
\* the value at a path of container keys; nil when the path is not there
Lookup(t, parts) ==
    IF Len(parts) = 0 THEN t
    ELSE IF t.kind = "map" /\ parts[1] \in DOMAIN t.m
         THEN Lookup(t.m[parts[1]], Tail(parts))
         ELSE NilV

\* a is before b in the lexicographic order of the character codes
LexBefore(a, b) ==
    \E k \in 1..(Len(a) + 1) :
       /\ \A j \in 1..(k - 1) : j <= Len(b) /\ a[j] = b[j]
       /\ IF k > Len(a) THEN Len(b) >= k
          ELSE k <= Len(b) /\ Code(a[k]) < Code(b[k])

\* C6: the elements the second pass appends to a target array are in ascending
\* lexicographic (string) order of their captured wildcard value, and they are
\* the tail of that array, whatever the order in which the keys are visited.
C6_AscendingCaptures ==
    pc = "inject" =>
      \A ap \in DOMAIN arrayResults :
         LET data == arrayResults[ap]
             arr  == Lookup(result, Split(ap, DOT))
         IN  /\ \A k \in 1..(Len(data) - 1) :
                   LexBefore(data[k].index, data[k + 1].index)
             /\ arr.kind = "slice"
             /\ Len(arr.s) >= Len(data)
             /\ \A k \in 1..Len(data) :
                   arr.s[Len(arr.s) - Len(data) + k] = data[k].element

\* captures "10" and "2" of the same array: "10" is appended first
C6_Witness ==
    /\ pc = "inject"
    /\ <<"d">> \in DOMAIN arrayResults
    /\ Len(arrayResults[<<"d">>]) = 2
    /\ arrayResults[<<"d">>][1].index = <<"1", "0">>
    /\ arrayResults[<<"d">>][2].index = <<"2">>
    /\ Lookup(result, << <<"d">> >>).s[1].m[<<"n">>].StrVal = <<"g">>

\* the wildcard rules of the table; their source pattern is in FromMDOC
WildRules ==
    {k \in 1..Len(rows) : /\ Contains(rows[k].OSCEM, WILDCARD)
                          /\ Contains(rows[k].FromMDOC, WILDCARD)}

RulesOfArray(ap) == {k \in WildRules : targetArrayPathOf(rows[k].OSCEM) = ap}

\* rule k matches an input key with captured value c
MatchesCapture(k, c) ==
    \E key \in DOMAIN input :
       LET mt == findStringSubmatch(rows[k].FromMDOC, key)
       IN  mt.ok /\ mt.groups[1] = c

CapturesOf(ap) ==
    {findStringSubmatch(rows[k].FromMDOC, key).groups[1] :
        <<k, key>> \in {x \in RulesOfArray(ap) \X DOMAIN input :
                           findStringSubmatch(rows[x[1]].FromMDOC, x[2]).ok}}

FieldsOf(ap, c) ==
    {extractPropertyName(rows[k].OSCEM) :
        k \in {j \in RulesOfArray(ap) : MatchesCapture(j, c)}}

\* C5: when several wildcard rules target one array and none of their patterns
\* is a literal input key, the second pass produces one element per captured
\* value, and each element holds exactly the fields of the rules whose pattern
\* matched an input key with that captured value.
C5_Grouping ==
    pc = "inject" =>
      \A ap \in {targetArrayPathOf(rows[k].OSCEM) : k \in WildRules} :
         Cardinality(RulesOfArray(ap)) >= 2 =>
           LET arr == Lookup(result, Split(ap, DOT))
               els == IF arr.kind = "slice" THEN arr.s ELSE <<>>
           IN  \E order \in Perms(CapturesOf(ap)) :
                  /\ Len(els) = Len(order)
                  /\ \A k \in 1..Len(els) :
                        /\ els[k].kind = "map"
                        /\ DOMAIN els[k].m = FieldsOf(ap, order[k])

\* the target path as a path of SetLeaves: "[N]" becomes a step into a sequence
ReplaceWildcard(oscem) == Split(ReplaceAll(oscem, WILDCARD, <<".", ";">>), DOT)

\* the patterns of a rule with their unit factors
PatternsOf(row) ==
    { [pattern |-> row.OptionalsMDOC, factor |-> row.CrunchFromMDOC],
      [pattern |-> row.FromMDOC,      factor |-> row.CrunchFromMDOC],
      [pattern |-> row.OptionalsXML,  factor |-> row.CrunchFromXML],
      [pattern |-> row.FromXML,       factor |-> row.CrunchFromXML] }

\* key is an input key that the pattern names, literally or through [N]
NamesKey(pattern, key) ==
    /\ key \in DOMAIN input
    /\ \/ \E k \in 1..Len(Split(pattern, SEMI)) :
             TrimSpace(Split(pattern, SEMI)[k]) = key
       \/ findStringSubmatch(pattern, key).ok

\* the leaf at path is the converted value of an input key that a rule with
\* this target path names
DerivedFromInput(path, leaf) ==
    \E k \in 1..Len(rows) :
       /\ ReplaceWildcard(rows[k].OSCEM) = path
       /\ \E p \in PatternsOf(rows[k]) : \E key \in DOMAIN input :
             /\ p.pattern # <<>>
             /\ NamesKey(p.pattern, key)
             /\ leaf = processValue(input[key], p.factor, rows[k])

ConstantPaths == {p_instrument_cs, p_acquisition_grf}

\* C2: the pruned output holds no key at the target path of a rule none of
\* whose patterns resolves; every field of the output other than the two
\* constants is derived from a value of the input document.
C2_PresenceIsolation ==
    pc = "done" =>
      LET leaves == SetLeaves(out, <<>>)
      IN  \A k \in 1..Len(leaves) :
             leaves[k][1] \notin ConstantPaths =>
               DerivedFromInput(leaves[k][1], leaves[k][2])

\* C8: for a rule with a target path containing [N] whose resolving pattern is
\* a ;-list of names, the first pass stores the converted value of the i-th
\* name at element i of the array for every name present in the input, and
\* registers nothing for the second pass.
C8_FixedCountArray ==
    (pc \in {"first", "second"} /\ i > 1) =>
      LET row   == rows[i - 1]
          names == Split(row.FromMDOC, SEMI)
          p     == parseArrayPath(row.OSCEM)
          arr   == Lookup(result, Append(p.arrayPath, p.arrayName))
      IN  (/\ Contains(row.OSCEM, WILDCARD)
           /\ Contains(row.FromMDOC, SEMI)
           /\ ~Contains(row.FromMDOC, WILDCARD)
           /\ row.OptionalsMDOC = <<>>
           /\ found) =>
            /\ \A k \in 1..Len(names) :
                  TrimSpace(names[k]) \in DOMAIN input =>
                    /\ arr.kind = "slice" /\ Len(arr.s) >= k
                    /\ Lookup(arr.s[k], Split(p.propertyName, DOT))
                         = processValue(input[TrimSpace(names[k])], crunchFactor, row)
            /\ \A e \in 1..Len(dynamicFieldPatterns) :
                  dynamicFieldPatterns[e].OSCEM # row.OSCEM

RecognizedTypes == {T_int, T_float, T_float64, T_bool, T_string}

\* C10: processing a rule whose declared type is not a recognized type leaves
\* the tree as it was: nothing is inserted, an earlier value at the same path
\* is kept, no container and no array element is created.
C10_UnrecognizedTypeFrame ==
    [][(pc = "first" /\ ToLower(rows[i].Type) \notin RecognizedTypes)
          => result' = result]_vars

\* C11: when a rule's unit factor is not empty and the raw value does not
\* parse as a number, the field is cast and inserted from the unconverted raw
\* value and the conversion goes on with the remaining rules.
C11_CrunchFailureNonFatal ==
    [][(/\ pc = "first"
        /\ ~Contains(rows[i].OSCEM, WILDCARD)
        /\ found'
        /\ crunchFactor' # <<>>
        /\ ~ParseFloat(rawValues'[1]).ok)
         => /\ pc' # "panic"
            /\ Lookup(result', Split(rows[i].OSCEM, DOT))
                 = castToBaseType(rawValues'[1], rows[i].Type, rows[i].Units)]_vars

\* C14: field-level problems never abort the batch: for every table and input
\* document the conversion goes through both passes, the constants and the
\* pruning without a crash, also when two rules have conflicting target paths
\* or a cast or unit conversion fails.
C14_NeverAborts == pc # "panic"

\* C16: a constant for which the caller supplies the empty string is unset
\* and is not in the output; with no constants and an input that matches no
\* rule the output has no fields.
C16_UnsetConstantsPruned ==
    pc = "done" =>
      /\ p1Flag = <<>> => Lookup(out, p_instrument_cs).kind = "nil"
      /\ p2Flag = <<>> => Lookup(out, p_acquisition_grf).kind = "nil"
      /\ (p1Flag = <<>> /\ p2Flag = <<>> /\ ~\E k \in 1..Len(rows) :
             \E p \in PatternsOf(rows[k]) : \E key \in DOMAIN input :
                p.pattern # <<>> /\ NamesKey(p.pattern, key))
           => out.kind = "nil"

\* C19: the registry holds at most one entry per source pattern, however many
\* rules and tiers name the pattern; every entry has a source pattern with
\* [N] that is not a literal input key and a target path with [N].
C19_RegistryDistinct ==
    /\ \A a, b \in 1..Len(dynamicFieldPatterns) :
          a # b => dynamicFieldPatterns[a].FromMDOC # dynamicFieldPatterns[b].FromMDOC
    /\ \A e \in 1..Len(dynamicFieldPatterns) :
          /\ Contains(dynamicFieldPatterns[e].FromMDOC, WILDCARD)
          /\ dynamicFieldPatterns[e].FromMDOC \notin DOMAIN input
          /\ Contains(dynamicFieldPatterns[e].OSCEM, WILDCARD)

\* two rules on the pattern p[N].n: one entry
C19_Witness ==
    /\ pc = "second"
    /\ Len(rows) = 2
    /\ rows[1].FromMDOC = s_pNn /\ rows[2].FromMDOC = s_pNn
    /\ Len(dynamicFieldPatterns) = 1
    /\ dynamicFieldPatterns[1].FromMDOC = s_pNn

\* a rule naming its pattern in two tiers: one entry
C19_WitnessTiers ==
    /\ pc = "second"
    /\ Len(rows) = 1
    /\ rows[1].FromMDOC = s_pNm /\ rows[1].OptionalsMDOC = s_pNm
    /\ Len(dynamicFieldPatterns) = 1

\* C20: every field of an element that the second pass built for an array
\* comes from a rule whose own target path names that array, the rule's
\* pattern matching an input key with the element's captured value.
C20_OwnTargetArray ==
    pc = "inject" =>
      \A ap \in DOMAIN arrayResults :
         \A k \in 1..Len(arrayResults[ap]) :
            \A pn \in DOMAIN arrayResults[ap][k].element.m :
               \E r \in RulesOfArray(ap) : \E key \in DOMAIN input :
                  /\ extractPropertyName(rows[r].OSCEM) = pn
                  /\ findStringSubmatch(rows[r].FromMDOC, key).ok
                  /\ findStringSubmatch(rows[r].FromMDOC, key).groups[1]
                       = arrayResults[ap][k].index
                  /\ arrayResults[ap][k].element.m[pn]
                       = processValue(input[key], getCrunchFactor(rows[r]), rows[r])

\* C15: the registry is reset at the start of every conversion: the output of
\* each conversion of a sequence is an output that its table and input
\* document give in a fresh process, and the second pass of a conversion
\* works on no rule that an earlier conversion registered.
C15_RepeatedCallsIndependent ==
    /\ pc = "done" => out \in ConvertOutputs(rows, input, p1Flag, p2Flag)
    /\ pc \in {"second", "inject", "clean", "done"} =>
         dynamicFieldPatterns = processRegularMappings(<<>>, rows, 1, input, <<>>).dyn

\* a conversion with an empty table ends, after an earlier conversion had left
\* rules in the registry: its output has no array
C15_Witness ==
    /\ pc = "done"
    /\ rows = <<>>
    /\ s_p1n \in DOMAIN input
    /\ ret = <<TRUE>>
    /\ dynamicFieldPatterns = <<>>
    /\ Lookup(out, <<s_d>>).kind = "nil"

\* C17: two conversions that run at the same time share nothing: under every
\* interleaving of their steps each returns an output that it returns when
\* it runs alone.
C17_ConcurrentCallsIndependent ==
    /\ pc = "done" => out \in ConvertOutputs(rows, input, p1Flag, p2Flag)
    /\ arg.pc = "done" => arg.out \in ConvertOutputs(arg.rows, arg.input, <<>>, <<>>)

\* the unit factor that the first pass pairs with a pattern of a rule
TierFactor(row, pattern) ==
    LET cs == checks(row)
        k  == CHOOSE j \in 1..Len(cs) :
                 /\ cs[j].field = pattern
                 /\ \A h \in 1..(j - 1) : cs[h].field # pattern
    IN  cs[k].crunch

\* the conversions of a raw value under the factors of a rule and under none
ConversionsOf(raw, row) ==
    {processValue(raw, f, row) : f \in {row.CrunchFromMDOC, row.CrunchFromXML, <<>>}}

\* C22: in the second pass a value matched by a deferred wildcard pattern is
\* converted with the unit factor of the tier the pattern belongs to in its
\* rule: the field of an element that holds a conversion of the matched input
\* value holds the conversion with that tier's factor.
C22_TierFactor ==
    pc = "inject" =>
      \A r \in 1..Len(rows) : \A p \in PatternsOf(rows[r]) : \A key \in DOMAIN input :
         LET row  == rows[r]
             ap   == targetArrayPathOf(row.OSCEM)
             pn   == extractPropertyName(row.OSCEM)
             mt   == findStringSubmatch(p.pattern, key)
         IN  (/\ Contains(row.OSCEM, WILDCARD)
              /\ ~Contains(p.pattern, SEMI)
              /\ mt.ok
              /\ ap \in DOMAIN arrayResults) =>
               \A e \in 1..Len(arrayResults[ap]) :
                  LET leaf == Lookup(arrayResults[ap][e].element, Split(pn, DOT))
                  IN  (/\ arrayResults[ap][e].index = mt.groups[1]
                       /\ leaf \in ConversionsOf(input[key], row))
                        => leaf = processValue(input[key],
                                               TierFactor(row, p.pattern), row)

\* C23: only rules that do not literally resolve are deferred: the iteration
\* of the first pass that resolves a rule literally and inserts its value
\* registers no pattern of the rule for the second pass, so each rule
\* contributes to the output through exactly one of the two passes.
C23_ResolvedNotDeferred ==
    [][(pc = "first" /\ found' /\ pc' # "panic" /\ result' # result)
          => dynamicFieldPatterns' = dynamicFieldPatterns]_vars

\* C24: index alignment of a ;-list pattern survives to the pruned output:
\* for a rule with the list pattern n1;...;nk and a target path with [N], the
\* set value of the name ni is at element i of the array in the output, also
\* when an earlier name is missing from the input.
C24_AlignmentInOutput ==
    pc = "done" =>
      \A r \in 1..Len(rows) :
         LET row   == rows[r]
             names == Split(row.FromMDOC, SEMI)
             p     == parseArrayPath(row.OSCEM)
             arr   == Lookup(out, Append(p.arrayPath, p.arrayName))
         IN  (/\ Contains(row.OSCEM, WILDCARD)
              /\ Contains(row.FromMDOC, SEMI)
              /\ ~Contains(row.FromMDOC, WILDCARD)
              /\ row.OptionalsMDOC = <<>>) =>
               \A k \in 1..Len(names) :
                  (/\ TrimSpace(names[k]) \in DOMAIN input
                   /\ input[TrimSpace(names[k])] # <<>>
                   /\ processValue(input[TrimSpace(names[k])],
                                   row.CrunchFromMDOC, row).HasSet) =>
                    /\ arr.kind = "slice" /\ Len(arr.s) >= k
                    /\ Lookup(arr.s[k], Split(p.propertyName, DOT))
                         = processValue(input[TrimSpace(names[k])],
                                        row.CrunchFromMDOC, row)

\* C25: for a rule whose target path has no [N] and whose resolving pattern
\* is a ;-list, the value inserted at the target path is the converted value
\* of a name of the list that is an input key: the empty placeholder of a
\* missing name is never cast and inserted.
C25_NoPlaceholderInserted ==
    [][(/\ pc = "first"
        /\ ~Contains(rows[i].OSCEM, WILDCARD)
        /\ Contains(rows[i].FromMDOC, SEMI)
        /\ rows[i].OptionalsMDOC = <<>>
        /\ found'
        /\ pc' # "panic")
         => \E k \in 1..Len(Split(rows[i].FromMDOC, SEMI)) :
               LET name == TrimSpace(Split(rows[i].FromMDOC, SEMI)[k])
               IN  /\ name \in DOMAIN input
                   /\ Lookup(result', Split(rows[i].OSCEM, DOT))
                        = processValue(input[name], crunchFactor', rows[i])]_vars

\* C26: every rule with a target path with [N] and a source pattern with [N]
\* that matches an input key contributes its target field to the elements
\* the second pass builds: an element of the captured value holds the field,
\* also when another rule of the table has the same source pattern.
C26_EveryRuleContributes ==
    pc = "inject" =>
      \A r \in WildRules : \A key \in DOMAIN input :
         LET mt == findStringSubmatch(rows[r].FromMDOC, key)
             pn == extractPropertyName(rows[r].OSCEM)
         IN  mt.ok =>
               \E ap \in DOMAIN arrayResults : \E e \in 1..Len(arrayResults[ap]) :
                  /\ arrayResults[ap][e].index = mt.groups[1]
                  /\ Lookup(arrayResults[ap][e].element, Split(pn, DOT)).kind # "nil"

\* C27: the conversion is deterministic: the output of a conversion is the
\* only output that its mapping table and input document can give, whatever
\* the order in which the keys of the input document, of the sub-document of
\* an element and of the grouping maps are visited.
C27_Deterministic ==
    pc = "done" => ConvertOutputs(rows, input, p1Flag, p2Flag) = {out}

=============================================================================
